---------------------------- MODULE Spec2Model ----------------------------
(***************************************************************************)
(* A model of the djkit / commonkit / drf_common / django_rest_commons     *)
(* extension utilities:                                                    *)
(*   - the per-action permission lookup of the view sets                   *)
(*     (djkit GenericViewSet, drf_common CommonViewSet);                   *)
(*   - the tabular upload field (commonkit TableUploadField with its       *)
(*     pandas and polars variants, django_rest_commons TableUploadField);  *)
(*   - the enum mapping serializer (commonkit EnumSerializer);             *)
(*   - the JSON renderer (commonkit JSONRenderer);                         *)
(*   - the split input/output serializer (commonkit and                    *)
(*     django_rest_commons IOSerializer);                                  *)
(*   - the recursive serializer (commonkit, django_rest_commons and        *)
(*     drf_common RecursiveSerializer) in the example CategorySerializer;  *)
(*   - the Obfuscator and the obfuscated output fields (commonkit);        *)
(*   - the create and update mixins (django_rest_commons, drf_common);     *)
(*   - the row validator resolution of the tabular upload field;           *)
(*   - the money field (djkit MoneyField).                                 *)
(* Python lists are sequences, dicts are functions, None is a record with  *)
(* isNone = TRUE.  Sequence positions are 1-based here and 0-based in the  *)
(* code: row index i of the code is position i + 1 of a table.             *)
(***************************************************************************)
EXTENDS Integers, Sequences, FiniteSets, TLC

VARIABLES
    \* ---- view set permissions ----
    vsKind,         \* which view set class the view is an instance of
    overrides,      \* class attributes the user's subclass defines
    action,         \* self.action, set by the framework per request
    perms,          \* what the last get_permissions call returned / raised
    calls,          \* number of get_permissions calls so far
    \* ---- tabular upload field ----
    klass,          \* the package the field class comes from
    variant,        \* the field class
    handlers,       \* the class's handler registry (extension -> handler)
    field,          \* the field instance: built, write_only, row_validator, ...
    pc,             \* position of to_internal_value: idle, rows, done
    upload,         \* name of the uploaded file
    parsed,         \* the table the format handler returned
    table,          \* table_object as process_table has it now
    idx,            \* index of the next row of the loop
    handlerCalls,   \* calls made to format handlers
    validatorCalls, \* calls made to the row validator
    raised,         \* message of the exception the format handler raised
    result,         \* what to_internal_value returned / raised
    repr,           \* what the last to_representation call returned / raised
    \* ---- enum mapping serializer ----
    enum,           \* self.enum, the enumeration the serializer is bound to
    internal,       \* the last to_internal_value call and its outcome
    display,        \* the last to_representation call and its outcome
    \* ---- JSON renderer ----
    rendering,      \* the last render call and what it returned
    \* ---- split input/output serializer ----
    io,             \* the IOSerializer instance and its last get_fields call
    \* ---- recursive serializer ----
    recursive,      \* the package, the recursive field, the Category table
    frames,         \* the stack of to_representation calls in progress
    serialized,     \* the serialization under way and what it returned / raised
    delegated,      \* the last call the recursive serializer delegated
    \* ---- obfuscator and the obfuscated output fields ----
    obf,            \* the last Obfuscator / field call and its outcome
    \* ---- create and update mixins ----
    view,           \* the view, its stored instance, the request under way
    \* ---- row validator of the tabular upload field ----
    binding,        \* the field's row_validator, its parent, the last bind
    \* ---- money field ----
    money           \* the model's field defaults, the instance, the last read

permVars == <<vsKind, overrides, action, perms, calls>>

uploadVars == <<klass, variant, handlers, field, pc, upload, parsed, table, idx,
                handlerCalls, validatorCalls, raised, result, repr>>

enumVars == <<enum, internal, display>>

recVars == <<recursive, frames, serialized, delegated>>

lateVars == <<obf, view, binding, money>>

vars == <<permVars, uploadVars, enumVars, rendering, io, recVars, lateVars>>

\* What the actions of one component leave alone.
notPermVars == <<uploadVars, enumVars, rendering, io, recVars, lateVars>>

notUploadVars == <<permVars, enumVars, rendering, io, recVars, lateVars>>

notEnumVars == <<permVars, uploadVars, rendering, io, recVars, lateVars>>

notRenderVars == <<permVars, uploadVars, enumVars, io, recVars, lateVars>>

notIOVars == <<permVars, uploadVars, enumVars, rendering, recVars, lateVars>>

notRecVars == <<permVars, uploadVars, enumVars, rendering, io, lateVars>>

earlyVars == <<permVars, uploadVars, enumVars, rendering, io, recVars>>

(***************************************************************************)
(* Bounds                                                                  *)
(***************************************************************************)
MaxCalls == 2

MaxRows == 3

MaxCategories == 3

\* the longest str handed to the Obfuscator
MaxLen == 3

\* the largest cutoff handed to the Obfuscator
MaxCutoff == 4

(***************************************************************************)
(* Exceptions                                                              *)
(***************************************************************************)
ValidationError(detail) == [kind |-> "ValidationError", detail |-> detail]

Raised(type, what) == [kind |-> type, detail |-> [text |-> what]]

(***************************************************************************)
(* Enum mapping serializer (commonkit EnumSerializer)                      *)
(***************************************************************************)
\* Python values as the serializer sees them: the type t (int, bool, str,
\* NoneType, list), the number n of an int or a bool (True is 1), the text
\* s of a str (of the one item of a list).
PyInt(n) == [t |-> "int", n |-> n, s |-> ""]

PyStr(s) == [t |-> "str", n |-> 0, s |-> s]

\* a == b of Python: numbers compare by value (True == 1), a str equals only
\* a str, None only None.
PyEq(a, b) ==
    IF a.t \in {"int", "bool"} /\ b.t \in {"int", "bool"}
    THEN a.n = b.n
    ELSE a.t = b.t /\ a.s = b.s

\* str(a), as the f-string of to_representation formats the code
Str(a) ==
    CASE a.t = "str" -> a.s
      [] a.t = "int" -> <<"0", "1", "2", "3">>[a.n + 1]
      [] a.t = "bool" -> IF a.n = 1 THEN "True" ELSE "False"
      [] a.t = "NoneType" -> "None"

\* An enumeration is its class body, the entries in definition order, and
\* the name of its metaclass.
Level ==
    [meta |-> "ChoicesMeta",
     body |-> <<[name |-> "BEGINNER", value |-> PyInt(0)],
                [name |-> "INTERMEDIATE", value |-> PyInt(1)],
                [name |-> "ADVANCED", value |-> PyInt(2)]>>]

MilitaryStatus ==
    [meta |-> "ChoicesMeta",
     body |-> <<[name |-> "EXEMPTED", value |-> PyStr("exempted")],
                [name |-> "SERVED", value |-> PyStr("served")],
                [name |-> "POSTPONED", value |-> PyStr("postponed")]>>]

\* The enumerations of the example application, and three more that the
\* assertion of __init__ lets through as well: one with an alias (an entry
\* whose value an earlier entry has), one with values of both kinds, one
\* whose string value spells the name of another member.
Enumerations ==
    {Level, MilitaryStatus,
     [meta |-> "EnumMeta",
      body |-> <<[name |-> "BEGINNER", value |-> PyInt(1)],
                 [name |-> "NEWBIE", value |-> PyInt(1)],
                 [name |-> "ADVANCED", value |-> PyInt(2)]>>],
     [meta |-> "EnumMeta",
      body |-> <<[name |-> "BEGINNER", value |-> PyInt(0)],
                 [name |-> "EXEMPTED", value |-> PyStr("exempted")]>>],
     [meta |-> "EnumMeta",
      body |-> <<[name |-> "SERVED", value |-> PyStr("EXEMPTED")],
                 [name |-> "EXEMPTED", value |-> PyStr("exempted")]>>]}

\* The member an entry of the class body stands for: the first entry with
\* an equal value (a later entry with that value is an alias of it).
Member(e, i) ==
    e.body[CHOOSE j \in 1..i :
              /\ PyEq(e.body[j].value, e.body[i].value)
              /\ \A k \in 1..(j - 1) : ~PyEq(e.body[k].value, e.body[i].value)]

\* for member in self.enum: the members in definition order, aliases left out
RECURSIVE Members(_, _)
Members(e, n) ==
    IF n = 0
    THEN <<>>
    ELSE IF Member(e, n) = e.body[n]
    THEN Append(Members(e, n - 1), e.body[n])
    ELSE Members(e, n - 1)

EnumReturned(v) == [kind |-> "returned", value |-> v]

\* get_display as the older serializers have it, the name whatever the
\* value: a faulty variant that C13 must tell apart.
get_display_name(member) == member.name

\* EnumSerializer.get_display
get_display(member) ==
    IF member.value.t = "str" THEN member.value.s ELSE member.name

\* EnumSerializer.allowed_inputs
allowed_inputs(e) ==
    LET ms == Members(e, Len(e.body))
    IN  [i \in 1..Len(ms) |-> get_display(ms[i])]

\* to_internal_value returning the name of the member instead of its value:
\* a faulty variant that C15 must tell apart.
enum_to_internal_value_name(e, data) ==
    IF data.t = "list"
    THEN Raised("TypeError", "unhashable type")
    ELSE IF data.t = "str" /\ \E i \in 1..Len(e.body) : e.body[i].name = data.s
    THEN LET i == CHOOSE i \in 1..Len(e.body) : e.body[i].name = data.s
         IN  EnumReturned(PyStr(Member(e, i).name))
    ELSE ValidationError(
             [text |-> "non-existent key passed to EnumSerializer, available keys are [{}]",
              keys |-> allowed_inputs(e)])

\* EnumSerializer.to_internal_value: self.enum[data] looks data up in the
\* dict of all names, aliases included; a dict lookup hashes its key first
\* (TypeError for a list) and raises KeyError for a key it has not.
enum_to_internal_value(e, data) ==
    IF data.t = "list"
    THEN Raised("TypeError", "unhashable type")
    ELSE IF data.t = "str" /\ \E i \in 1..Len(e.body) : e.body[i].name = data.s
    THEN LET i == CHOOSE i \in 1..Len(e.body) : e.body[i].name = data.s
         IN  EnumReturned(Member(e, i).value)
    ELSE ValidationError(
             [text |-> "non-existent key passed to EnumSerializer, available keys are [{}]",
              keys |-> allowed_inputs(e)])

\* to_representation handing an unknown code back instead of raising: a
\* faulty variant that C14 must tell apart.
enum_to_representation_lenient(e, code) ==
    LET ms == Members(e, Len(e.body))
        hits == {i \in 1..Len(ms) : PyEq(ms[i].value, code)}
    IN  IF hits # {}
        THEN EnumReturned(PyStr(get_display(
                 ms[CHOOSE i \in hits : \A j \in hits : i <= j])))
        ELSE EnumReturned(PyStr(Str(code)))

\* EnumSerializer.to_representation
enum_to_representation(e, code) ==
    LET ms == Members(e, Len(e.body))
        hits == {i \in 1..Len(ms) : PyEq(ms[i].value, code)}
    IN  IF hits # {}
        THEN EnumReturned(PyStr(get_display(
                 ms[CHOOSE i \in hits : \A j \in hits : i <= j])))
        ELSE ValidationError(
                 [text |-> "code={} has no corresponding value in enum {}",
                  code |-> Str(code), enum |-> e.meta])

NoCall == [called |-> FALSE]

\* What a request can carry for the field: names, values, other text, a
\* number, null, a list.
Labels ==
    {PyStr(s) : s \in {"BEGINNER", "INTERMEDIATE", "ADVANCED", "NEWBIE",
                       "EXEMPTED", "SERVED", "POSTPONED", "KICKED",
                       "exempted", "served"}}
        \cup {PyInt(0), [t |-> "NoneType", n |-> 0, s |-> ""],
              [t |-> "list", n |-> 0, s |-> "BEGINNER"]}

\* What the stored attribute can hold.
Codes ==
    {PyInt(n) : n \in 0..3}
        \cup {PyStr(s) : s \in {"exempted", "served", "postponed", "EXEMPTED",
                                "BEGINNER", "0"}}
        \cup {[t |-> "bool", n |-> 1, s |-> ""],
              [t |-> "NoneType", n |-> 0, s |-> ""]}

EnumToInternalValue(data) ==
    /\ internal' = [called |-> TRUE, data |-> data,
                    out |-> enum_to_internal_value(enum, data)]
    /\ UNCHANGED <<enum, display>>
    /\ UNCHANGED notEnumVars

\* to_representation of a stored code
EnumToRepresentation(code) ==
    /\ display' = [called |-> TRUE, code |-> code, fromInput |-> FALSE,
                   out |-> enum_to_representation(enum, code)]
    /\ UNCHANGED <<enum, internal>>
    /\ UNCHANGED notEnumVars

\* to_representation of the value the last to_internal_value returned (the
\* value that was stored is read back)
EnumRepresentStored ==
    /\ internal.called
    /\ internal.out.kind = "returned"
    /\ display' = [called |-> TRUE, code |-> internal.out.value,
                   fromInput |-> TRUE, data |-> internal.data,
                   out |-> enum_to_representation(enum, internal.out.value)]
    /\ UNCHANGED <<enum, internal>>
    /\ UNCHANGED notEnumVars

\* to_internal_value of the label the last to_representation returned (the
\* label of a response is sent back in a request); code is the code that
\* label was rendered from.
EnumAcceptRepresented ==
    /\ display.called
    /\ display.out.kind = "returned"
    /\ internal' = [called |-> TRUE, data |-> display.out.value,
                    code |-> display.code,
                    out |-> enum_to_internal_value(enum, display.out.value)]
    /\ UNCHANGED <<enum, display>>
    /\ UNCHANGED notEnumVars

(***************************************************************************)
(* JSON renderer (commonkit JSONRenderer)                                  *)
(***************************************************************************)
\* The payloads a view hands to the renderer: a Python value is its type t,
\* its keys (of a dict) and its items (the values of a dict, the elements
\* of a list or tuple, the one text of a str or number).
Payloads ==
    {[t |-> "dict", keys |-> <<"name">>, items |-> <<"required">>],
     [t |-> "dict", keys |-> <<"key">>, items |-> <<"value">>],
     [t |-> "dict", keys |-> <<"level", "military_status">>,
      items |-> <<"required", "required">>],
     [t |-> "dict", keys |-> <<>>, items |-> <<>>],
     [t |-> "list", keys |-> <<>>, items |-> <<"INTENTIONAL_FIELD_ERROR">>],
     [t |-> "list", keys |-> <<>>, items |-> <<"first", "second">>],
     [t |-> "list", keys |-> <<>>, items |-> <<>>],
     [t |-> "tuple", keys |-> <<>>, items |-> <<"first", "second">>],
     [t |-> "str", keys |-> <<>>, items |-> <<"Not found.">>],
     [t |-> "str", keys |-> <<>>, items |-> <<"">>],
     [t |-> "int", keys |-> <<>>, items |-> <<"0">>],
     [t |-> "NoneType", keys |-> <<>>, items |-> <<>>]}

\* json.dumps of the base renderer: a dict is an object, a list or a tuple
\* an array, a str a string, a number a number, None null.  The dict that
\* render_errors builds has the two payloads as its members.
Json(data) ==
    CASE data.t = "errors" ->
             [j |-> "object", keys |-> <<"field_errors", "non_field_errors">>,
              members |->
                  <<[j |-> IF data.field_errors.t = "dict"
                           THEN "object" ELSE "array",
                     keys |-> data.field_errors.keys,
                     items |-> data.field_errors.items],
                    [j |-> CASE data.non_field_errors.t = "str" -> "string"
                             [] data.non_field_errors.t = "dict" -> "object"
                             [] OTHER -> "array",
                     keys |-> data.non_field_errors.keys,
                     items |-> data.non_field_errors.items]>>]
      [] data.t = "dict" ->
             [j |-> "object", keys |-> data.keys, items |-> data.items]
      [] data.t \in {"list", "tuple"} ->
             [j |-> "array", keys |-> <<>>, items |-> data.items]
      [] data.t = "str" ->
             [j |-> "string", keys |-> <<>>, items |-> data.items]
      [] data.t = "int" ->
             [j |-> "number", keys |-> <<>>, items |-> data.items]
      [] data.t = "NoneType" ->
             [j |-> "null", keys |-> <<>>, items |-> <<>>]

\* super().render: the framework's JSONRenderer returns no bytes for None
\* and the JSON document of the data otherwise.
base_render(data) ==
    IF data.t = "NoneType"
    THEN [bytes |-> "empty"]
    ELSE [bytes |-> "json", doc |-> Json(data)]

\* render_success putting the payload into an envelope: a faulty variant
\* that C17 must tell apart.
render_success_enveloped(data) ==
    [t |-> "dict", keys |-> <<"data">>, items |-> data.items]

\* JSONRenderer.render_success
render_success(data) == data

\* JSONRenderer.render_errors: Mapping is the type dict here, Iterable the
\* types dict, list, tuple and str.
render_errors(data) ==
    LET empty_dict == [t |-> "dict", keys |-> <<>>, items |-> <<>>]
        empty_list == [t |-> "list", keys |-> <<>>, items |-> <<>>]
    IN  [t |-> "errors",
         field_errors |-> IF data.t = "dict" THEN data ELSE empty_dict,
         non_field_errors |->
             IF data.t \in {"list", "tuple", "str"} THEN data ELSE empty_list]

\* render testing status_code > 400: a faulty variant that C16 must tell
\* apart.
render_above_400(data, renderer_context) ==
    IF renderer_context.kind = "response"
    THEN IF renderer_context.status_code > 400
         THEN base_render(render_errors(data))
         ELSE base_render(render_success(data))
    ELSE base_render(data)

\* JSONRenderer.render: None and the empty dict are false, and so is a
\* context without a response; a response object is true.
render(data, renderer_context) ==
    IF renderer_context.kind = "response"
    THEN IF renderer_context.status_code >= 400
         THEN base_render(render_errors(data))
         ELSE base_render(render_success(data))
    ELSE base_render(data)

\* The framework renders the data of a response.
Render(data, renderer_context) ==
    /\ rendering' = [called |-> TRUE, data |-> data,
                     renderer_context |-> renderer_context,
                     out |-> render(data, renderer_context)]
    /\ UNCHANGED notRenderVars

(***************************************************************************)
(* Split input/output serializer (commonkit and django_rest_commons        *)
(* IOSerializer)                                                           *)
(***************************************************************************)
\* The instances an IOSerializer is built with: serializers, with the
\* fields they declare, and plain fields.  All of them are instances of the
\* framework's Field; only a serializer has get_fields.
Serializers ==
    {[class |-> "HumanSerializer", is_serializer |-> TRUE,
      declared |-> ("id" :> "IntegerField" @@ "level" :> "EnumSerializer"
                    @@ "military_status" :> "EnumSerializer")],
     [class |-> "CategorySerializer", is_serializer |-> TRUE,
      declared |-> ("id" :> "IntegerField" @@ "name" :> "CharField"
                    @@ "parent" :> "RecursiveSerializer")],
     [class |-> "EmailField", is_serializer |-> FALSE,
      declared |-> [x \in {} |-> ""]]}

\* The framework's Serializer.get_fields: the dict of the declared fields,
\* here the set of its (key, field) items.  A plain field has no such
\* method.
serializer_get_fields(s) ==
    IF s.is_serializer
    THEN [kind |-> "returned",
          items |-> {[key |-> [isNone |-> FALSE, name |-> n],
                    value |-> s.declared[n]] :
                        n \in DOMAIN s.declared}]
    ELSE Raised("AttributeError", "get_fields")

\* commonkit IOSerializer.get_fields.  Both attributes hold instances, and
\* a serializer instance is an instance of serializers.Field too.
io_get_fields(self, request) ==
    IF request.isNone
    THEN serializer_get_fields(self.output_serializer)
    ELSE IF request.method \in {"POST", "PUT", "PATCH"}
    THEN [kind |-> "returned",
          items |-> {[key |-> self.field_name,
                      value |-> self.input_serializer.class]}]
    ELSE [kind |-> "returned",
          items |-> {[key |-> self.field_name,
                      value |-> self.output_serializer.class]}]

\* django_rest_commons IOSerializer.get_fields
drc_io_get_fields(self, request) ==
    IF self.has_initial_data
    THEN serializer_get_fields(self.output_serializer)
    ELSE serializer_get_fields(self.input_serializer)

\* IOSerializer.bind: the field name goes to the serializer and to both of
\* the instances it holds.
IOBind(field_name) ==
    /\ io.field_name.isNone
    /\ io' = [io EXCEPT !.field_name = [isNone |-> FALSE, name |-> field_name]]
    /\ UNCHANGED notIOVars

\* get_fields with the request of the context (None when the context has
\* no request).
IOGetFields(request) ==
    /\ io' = [io EXCEPT !.got =
                 [called |-> TRUE, request |-> request,
                  out |-> IF io.package = "commonkit"
                          THEN io_get_fields(io, request)
                          ELSE drc_io_get_fields(io, request)]]
    /\ UNCHANGED notIOVars

(***************************************************************************)
(* Recursive serializer (commonkit, django_rest_commons and drf_common     *)
(* RecursiveSerializer) inside the example CategorySerializer              *)
(***************************************************************************)
\* The rows of the Category table: row i has the id i, a name and the id of
\* its parent (0 for null).  A parent has a smaller id than its children,
\* so every chain of parents is finite and acyclic.
Categories ==
    {[i \in 1..MaxCategories |->
         [name |-> <<"books", "fiction", "novels", "drafts", "notes">>[i],
          parent |-> p[i]]] :
        p \in {q \in [1..MaxCategories -> 0..MaxCategories] :
                  \A i \in 1..MaxCategories : q[i] < i}}

\* field.get_attribute(instance) of the recursive field, as the list of the
\* objects the field has to represent: the parent (none when it is null)
\* for parent = RecursiveSerializer(), the children in id order for
\* category_set = RecursiveSerializer(many=True).
Related(self, inst) ==
    IF self.field = "parent"
    THEN IF self.categories[inst].parent = 0
         THEN <<>>
         ELSE <<self.categories[inst].parent>>
    ELSE SelectSeq([j \in 1..Len(self.categories) |-> j],
                   LAMBDA j : self.categories[j].parent = inst)

\* to_representation with the test of the parent the wrong way round: a
\* faulty variant that C20 must tell apart.
recursive_to_representation_inverted(package, parent, grand) ==
    LET enclosing == IF parent = "ListSerializer" THEN grand ELSE parent
        to == IF parent = "ListSerializer" THEN "parent.parent" ELSE "parent"
    IN  IF package = "commonkit" /\ parent # "None"
        THEN ValidationError(
                 [text |-> "{} can't be used as a dependant serializer",
                  serializer |-> "RecursiveSerializer"])
        ELSE IF enclosing = "None"
        THEN IF package = "drf_common"
             THEN Raised("TypeError", "NoneType takes no arguments")
             ELSE Raised("AttributeError", "to_representation")
        ELSE [kind |-> "delegate", to |-> to,
              through |-> IF package = "drf_common"
                          THEN "a new instance of its class"
                          ELSE "the instance"]

\* RecursiveSerializer.to_representation, up to the call it delegates to.
\* parent and grand are the classes of self.parent and self.parent.parent.
\* Without the test of commonkit, None.to_representation is an
\* AttributeError and None.__class__(value) a TypeError.
recursive_to_representation(package, parent, grand) ==
    LET enclosing == IF parent = "ListSerializer" THEN grand ELSE parent
        to == IF parent = "ListSerializer" THEN "parent.parent" ELSE "parent"
    IN  IF package = "commonkit" /\ parent = "None"
        THEN ValidationError(
                 [text |-> "{} can't be used as a dependant serializer",
                  serializer |-> "RecursiveSerializer"])
        ELSE IF enclosing = "None"
        THEN IF package = "drf_common"
             THEN Raised("TypeError", "NoneType takes no arguments")
             ELSE Raised("AttributeError", "to_representation")
        ELSE [kind |-> "delegate", to |-> to,
              through |-> IF package = "drf_common"
                          THEN "a new instance of its class"
                          ELSE "the instance"]

\* The frame of CategorySerializer.to_representation(inst) once id and name
\* are represented: the related objects to do and those done.
Frame(self, inst, by_delegation) ==
    [inst |-> inst, todo |-> Related(self, inst), acc |-> <<>>,
     delegated |-> by_delegation]

\* The dict that CategorySerializer.to_representation returns at the end of
\* a frame.
Represented(self, frame) ==
    [id |-> frame.inst, name |-> self.categories[frame.inst].name,
     key |-> self.field,
     isNull |-> self.field = "parent" /\ frame.acc = <<>>,
     nested |-> frame.acc]

\* RecursiveSerializer().to_representation(value) and
\* RecursiveSerializer(many=True).child.to_representation(value) outside any
\* serializer.
RecStandalone(value, parent) ==
    /\ frames = <<>>
    /\ serialized' =
           [call |-> "standalone", parent |-> parent, value |-> value]
               @@ recursive_to_representation(recursive.package, parent, "None")
    /\ UNCHANGED <<recursive, frames, delegated>>
    /\ UNCHANGED notRecVars

\* CategorySerializer(instance).data, and
\* CategorySerializer(queryset, many=True).data with the list serializer's
\* frame (inst 0) below the frames of the elements.
RecStart(instances, many) ==
    /\ frames = <<>>
    /\ many \/ Len(instances) = 1
    /\ frames' = IF many
                 THEN <<[inst |-> 0, todo |-> instances, acc |-> <<>>,
                         delegated |-> FALSE]>>
                 ELSE <<Frame(recursive, instances[1], FALSE)>>
    /\ serialized' = [kind |-> "running", call |-> "data", many |-> many,
                      instances |-> instances]
    /\ delegated' = NoCall
    /\ UNCHANGED recursive
    /\ UNCHANGED notRecVars

\* One step of the serialization: the top frame either represents its next
\* related object (the list serializer through its child, the recursive
\* field through recursive_to_representation) or returns to its caller.
RecStep ==
    /\ frames # <<>>
    /\ LET n == Len(frames)
           top == frames[n]
           call == recursive_to_representation(
                       recursive.package,
                       IF recursive.field = "parent"
                       THEN "Serializer" ELSE "ListSerializer",
                       "Serializer")
       IN  IF top.todo # <<>>
           THEN IF top.inst # 0 /\ call.kind # "delegate"
                THEN /\ frames' = <<>>
                     /\ serialized' = [call |-> "data"] @@ call
                     /\ UNCHANGED delegated
                ELSE /\ frames' =
                            Append([frames EXCEPT ![n].todo = Tail(top.todo)],
                                   Frame(recursive, Head(top.todo), top.inst # 0))
                     /\ UNCHANGED <<serialized, delegated>>
           ELSE LET out == IF top.inst = 0
                           THEN top.acc
                           ELSE Represented(recursive, top)
                IN  /\ delegated' = IF top.delegated
                                    THEN [called |-> TRUE, value |-> top.inst,
                                          out |-> out]
                                    ELSE delegated
                    /\ IF n = 1
                       THEN /\ frames' = <<>>
                            /\ serialized' =
                                   [serialized EXCEPT !.kind = "returned"]
                                       @@ [data |-> out]
                       ELSE /\ frames' =
                                   [SubSeq(frames, 1, n - 1) EXCEPT
                                       ![n - 1].acc = Append(@, out)]
                            /\ UNCHANGED serialized
    /\ UNCHANGED recursive
    /\ UNCHANGED notRecVars

(***************************************************************************)
(* Obfuscator (commonkit/utils.py) and the obfuscated output fields        *)
(***************************************************************************)
\* A str is the sequence of its characters. The callers of this section
\* pass a str for s and an int for cutoff, so the two isinstance tests of
\* obfuscate pass.

\* char * n: the empty str when n <= 0
Times(char, n) == [i \in 1..n |-> char]

\* The position a slice bound denotes in s: a negative bound counts from the
\* end, and every bound is clamped to 0..len(s).
SliceIndex(s, index) ==
    IF index < 0
    THEN IF Len(s) + index < 0 THEN 0 ELSE Len(s) + index
    ELSE IF index > Len(s) THEN Len(s) ELSE index

\* obfuscate that masks nothing when the cutoff reaches the length of s: a
\* faulty variant that C23 must tell apart.
obfuscate_revealing(s, char, cutoff, from_end) ==
    IF cutoff < 0
    THEN Raised("ValueError", "must provide a positive cutoff")
    ELSE IF cutoff = 0 \/ Len(s) <= cutoff
    THEN EnumReturned(s)
    ELSE EnumReturned(IF from_end
                      THEN SubSeq(s, 1, SliceIndex(s, -cutoff - 1))
                               \o Times(char, cutoff)
                      ELSE Times(char, cutoff)
                               \o SubSeq(s, cutoff + 1, Len(s)))

\* obfuscate that keeps the head of s where it has to keep the tail: a
\* faulty variant that C22 must tell apart.
obfuscate_head(s, char, cutoff, from_end) ==
    IF cutoff = 0
    THEN EnumReturned(s)
    ELSE IF cutoff < 0
    THEN Raised("ValueError", "must provide a positive cutoff")
    ELSE IF Len(s) <= cutoff
    THEN EnumReturned(Times(char, Len(s)))
    ELSE EnumReturned(IF from_end
                      THEN SubSeq(s, 1, SliceIndex(s, -cutoff - 1))
                               \o Times(char, cutoff)
                      ELSE Times(char, cutoff)
                               \o SubSeq(s, 1, Len(s) - cutoff))

\* Obfuscator.obfuscate
obfuscate(s, char, cutoff, from_end) ==
    IF cutoff = 0
    THEN EnumReturned(s)
    ELSE IF cutoff < 0
    THEN Raised("ValueError",
                "must provide a positive cutoff, negative indices are not supported")
    ELSE IF Len(s) <= cutoff
    THEN EnumReturned(Times(char, Len(s)))
    ELSE LET index == IF from_end THEN -cutoff - 1 ELSE cutoff
             after_cutoff ==
                 SubSeq(s, SliceIndex(s, index) + 1, Len(s))
             before_cutoff == SubSeq(s, 1, SliceIndex(s, index))
         IN  EnumReturned(IF from_end
                          THEN before_cutoff \o Times(char, cutoff)
                          ELSE Times(char, cutoff) \o after_cutoff)

\* e.split(sep): the pieces of e between the occurrences of sep
RECURSIVE split(_, _)
split(e, sep) ==
    IF \A i \in 1..Len(e) : e[i] # sep
    THEN <<e>>
    ELSE LET k == CHOOSE i \in 1..Len(e) :
                      e[i] = sep /\ \A j \in 1..(i - 1) : e[j] # sep
         IN  <<SubSeq(e, 1, k - 1)>> \o split(SubSeq(e, k + 1, Len(e)), sep)

\* email that masks the address as one string: a faulty variant that C24
\* must tell apart.
email_whole(e, char, cutoff, from_end) ==
    IF \A i \in 1..Len(e) : e[i] # "@"
    THEN Raised("ValueError", "email provided is not a valid email")
    ELSE obfuscate(e, char, cutoff, from_end)

\* Obfuscator.email: host, domain = e.split("@") raises ValueError itself
\* when the split has more than two pieces.
email(e, char, cutoff, from_end) ==
    IF \A i \in 1..Len(e) : e[i] # "@"
    THEN Raised("ValueError", "email provided is not a valid email")
    ELSE IF Len(split(e, "@")) # 2
    THEN Raised("ValueError", "too many values to unpack (expected 2)")
    ELSE LET host == split(e, "@")[1]
             domain == split(e, "@")[2]
             masked == obfuscate(host, char, cutoff, from_end)
         IN  IF masked.kind = "returned"
             THEN EnumReturned(masked.value \o <<"@">> \o domain)
             ELSE masked

\* ObfuscatedFieldMixin.to_representation, which ObfuscatedCharField
\* inherits; self is the field with the settings __init__ stored.
char_field_to_representation(self, value) ==
    obfuscate(value, self.char, self.cutoff, self.from_end)

\* ObfuscatedEmailField.to_representation: email is called with the value
\* alone, so char, cutoff and from_end take the defaults of its signature.
email_field_to_representation(self, value) ==
    email(value, "*", 4, TRUE)

\* One call is made on the arguments drawn at the start, which obf holds
\* until then: s, char, cutoff and from_end, the settings of the field for
\* the two fields.

\* Obfuscator.obfuscate(s, char, cutoff, from_end)
Obfuscate ==
    /\ ~obf.called
    /\ obf' = [obf EXCEPT !.called = TRUE, !.fn = "obfuscate",
                          !.out = obfuscate(obf.s, obf.char, obf.cutoff,
                                            obf.from_end)]
    /\ UNCHANGED <<earlyVars, view, binding, money>>

\* Obfuscator.email(e, char, cutoff, from_end)
Email ==
    /\ ~obf.called
    /\ obf' = [obf EXCEPT !.called = TRUE, !.fn = "email",
                          !.out = email(obf.s, obf.char, obf.cutoff,
                                        obf.from_end)]
    /\ UNCHANGED <<earlyVars, view, binding, money>>

\* ObfuscatedCharField(cutoff=, char=, from_end=).to_representation(value)
CharFieldToRepresentation ==
    /\ ~obf.called
    /\ obf' = [obf EXCEPT !.called = TRUE, !.fn = "ObfuscatedCharField",
                          !.out = char_field_to_representation(obf, obf.s)]
    /\ UNCHANGED <<earlyVars, view, binding, money>>

\* ObfuscatedEmailField(cutoff=, char=, from_end=).to_representation(value)
EmailFieldToRepresentation ==
    /\ ~obf.called
    /\ obf' = [obf EXCEPT !.called = TRUE, !.fn = "ObfuscatedEmailField",
                          !.out = email_field_to_representation(obf, obf.s)]
    /\ UNCHANGED <<earlyVars, view, binding, money>>

(***************************************************************************)
(* Create and update mixins (django_rest_commons and drf_common            *)
(* CommonCreateModelMixin / CommonUpdateModelMixin with the                *)
(* get_input_serializer / get_output_serializer of their view)             *)
(***************************************************************************)
\* The view is its package, its two optional serializer classes ("None"
\* when left at the class default; serializer_class is always "Serializer")
\* and the objects its queryset holds.  request.data is the set of the keys
\* it carries.

\* serializer.is_valid(): the data carries every field the class requires;
\* the default serializer requires a name, the input serializer a password
\* as well.
is_valid(serializer_class, data) ==
    IF serializer_class = "InputSerializer"
    THEN {"name", "password"} \subseteq data
    ELSE {"name"} \subseteq data

\* get_input_serializer called with nargs arguments.  django_rest_commons
\* (MultiSerializerMixin) takes *args, **kwargs and returns an instance;
\* drf_common (CommonViewSet, MultiSerializerMixin) takes self alone, so a
\* call with arguments raises TypeError, and returns the class itself.
get_input_serializer(self, nargs) ==
    IF self.package = "drf_common" /\ nargs > 0
    THEN Raised("TypeError",
                "get_input_serializer() got an unexpected keyword argument")
    ELSE EnumReturned(IF self.input_serializer_class # "None"
                      THEN self.input_serializer_class
                      ELSE "Serializer")

\* get_output_serializer called with nargs arguments; django_rest_commons
\* falls back to self.get_serializer, which instantiates serializer_class.
get_output_serializer(self, nargs) ==
    IF self.package = "drf_common" /\ nargs > 0
    THEN Raised("TypeError",
                "get_output_serializer() takes 1 positional argument")
    ELSE EnumReturned(IF self.output_serializer_class # "None"
                      THEN self.output_serializer_class
                      ELSE "Serializer")

\* CommonCreateModelMixin.create(request): events lists what the handler
\* did, in order; before is the queryset as the handler found it.
Create(data) ==
    /\ view.called
    /\ Len(view.objects) < MaxCalls
    /\ LET got == get_input_serializer(view, 1)
           instance == [saved_by |-> got.value, data |-> data]
           output_serializer == get_output_serializer(view, 1)
           call == [called |-> TRUE, handler |-> "create", pk |-> 0,
                    data |-> data, before |-> view.objects]
       IN  IF got.kind # "returned"
           THEN view' = [view EXCEPT !.last =
                            call @@ [validated_by |-> "None",
                                     events |-> <<>>, out |-> got]]
           ELSE IF ~is_valid(got.value, data)
           THEN view' = [view EXCEPT !.last =
                            call @@ [validated_by |-> got.value,
                                     events |-> <<"is_valid">>,
                                     out |-> Raised("ValidationError",
                                                    "invalid")]]
           ELSE IF output_serializer.kind # "returned"
           THEN view' = [view EXCEPT
                            !.objects = Append(@, instance),
                            !.last =
                                call @@ [validated_by |-> got.value,
                                         events |-> <<"is_valid", "save">>,
                                         out |-> output_serializer]]
           ELSE view' = [view EXCEPT
                            !.objects = Append(@, instance),
                            !.last =
                                call @@ [validated_by |-> got.value,
                                         events |->
                                             <<"is_valid", "save",
                                               "Response">>,
                                         out |-> [kind |-> "Response",
                                                  status |-> 201,
                                                  body |->
                                                      [serializer |->
                                                           output_serializer.value,
                                                       instance |->
                                                           instance]]]]
    /\ UNCHANGED <<earlyVars, obf, binding, money>>

\* CommonUpdateModelMixin.update(request, pk=pk): get_object raises Http404
\* when the queryset has no such object; save writes the data to the
\* object in place and the response is built for that object.
Update(pk, data) ==
    /\ view.called
    /\ LET got == get_input_serializer(view, 3)
           instance == [saved_by |-> got.value, data |-> data]
           output_serializer == get_output_serializer(view, 1)
           call == [called |-> TRUE, handler |-> "update", pk |-> pk,
                    data |-> data, before |-> view.objects]
       IN  IF pk > Len(view.objects)
           THEN view' = [view EXCEPT !.last =
                            call @@ [validated_by |-> "None",
                                     events |-> <<>>,
                                     out |-> Raised("Http404",
                                                    "Not found.")]]
           ELSE IF got.kind # "returned"
           THEN view' = [view EXCEPT !.last =
                            call @@ [validated_by |-> "None",
                                     events |-> <<>>, out |-> got]]
           ELSE IF ~is_valid(got.value, data)
           THEN view' = [view EXCEPT !.last =
                            call @@ [validated_by |-> got.value,
                                     events |-> <<"is_valid">>,
                                     out |-> Raised("ValidationError",
                                                    "invalid")]]
           ELSE IF output_serializer.kind # "returned"
           THEN view' = [view EXCEPT
                            !.objects[pk] = instance,
                            !.last =
                                call @@ [validated_by |-> got.value,
                                         events |-> <<"is_valid", "save">>,
                                         out |-> output_serializer]]
           ELSE view' = [view EXCEPT
                            !.objects[pk] = instance,
                            !.last =
                                call @@ [validated_by |-> got.value,
                                         events |->
                                             <<"is_valid", "save",
                                               "Response">>,
                                         out |-> [kind |-> "Response",
                                                  status |-> 200,
                                                  body |->
                                                      [serializer |->
                                                           output_serializer.value,
                                                       instance |->
                                                           instance]]]]
    /\ UNCHANGED <<earlyVars, obf, binding, money>>

(***************************************************************************)
(* Row validator of the tabular upload field (commonkit                    *)
(* TableUploadField.get_row_validator / bind)                              *)
(***************************************************************************)
\* What self.row_validator can hold is its type t, its name, the base
\* classes of a class and the context a validator closure has captured:
\* None, a str, a class, a function, a number, and after bind a bound
\* method of the parent or the closure of validate_row_with_serializer.
\* The parent serializer is the set of the method names it defines.

\* validate_row_with_serializer(serializer_class, context): the closure
\* validator, which keeps the class and the context.
validate_row_with_serializer(serializer_class, context) ==
    [t |-> "closure", name |-> serializer_class.name, bases |-> {},
     context |-> context]

\* get_row_validator without the test of the base class: a faulty variant
\* that C26 must tell apart.
get_row_validator_any_class(self) ==
    IF self.row_validator.t = "str"
    THEN IF self.row_validator.name \notin self.parent
         THEN ValidationError([text |-> "method doesn't exist on serializer"])
         ELSE EnumReturned([t |-> "method", name |-> self.row_validator.name,
                            bases |-> {}, context |-> {}])
    ELSE IF self.row_validator.t = "class"
    THEN EnumReturned(validate_row_with_serializer(self.row_validator,
                                                   self.context))
    ELSE IF self.row_validator.t = "NoneType"
    THEN LET method_name == IF self.field_name = "table"
                            THEN "validate_table_row"
                            ELSE "validate_sheet_row"
         IN  EnumReturned(IF method_name \in self.parent
                          THEN [t |-> "method", name |-> method_name,
                                bases |-> {}, context |-> {}]
                          ELSE [t |-> "NoneType", name |-> "", bases |-> {},
                                context |-> {}])
    ELSE ValidationError([text |-> "validate_row can only be of types str"])

\* TableUploadField.get_row_validator; self.context is the context of the
\* serializer the field is bound to.
get_row_validator(self) ==
    IF self.row_validator.t = "str"
    THEN IF self.row_validator.name \notin self.parent
         THEN ValidationError(
                  [text |-> "method {} doesn't exist on serializer {}"])
         ELSE EnumReturned([t |-> "method", name |-> self.row_validator.name,
                            bases |-> {}, context |-> {}])
    ELSE IF /\ self.row_validator.t = "class"
            /\ "Serializer" \notin self.row_validator.bases
    THEN ValidationError(
             [text |-> "validate_row accepts only subclasses of rest_framework.serializers.Serializer"])
    ELSE IF /\ self.row_validator.t = "class"
            /\ "Serializer" \in self.row_validator.bases
    THEN EnumReturned(validate_row_with_serializer(self.row_validator,
                                                   self.context))
    ELSE IF self.row_validator.t = "NoneType"
    THEN LET method_name == IF self.field_name = "table"
                            THEN "validate_table_row"
                            ELSE "validate_sheet_row"
         IN  EnumReturned(IF method_name \in self.parent
                          THEN [t |-> "method", name |-> method_name,
                                bases |-> {}, context |-> {}]
                          ELSE [t |-> "NoneType", name |-> "", bases |-> {},
                                context |-> {}])
    ELSE ValidationError(
             [text |-> "validate_row can only be of types str, callable or a subclass of serializers.Serializer but got={}"])

\* TableUploadField.bind(field_name, parent): Field.bind stores the name
\* and the parent, then the validator is resolved; when get_row_validator
\* raises, self.row_validator stays as it was.
Bind(field_name, parent) ==
    /\ binding.called
    /\ binding.binds < MaxCalls
    /\ LET self == [binding EXCEPT !.field_name = field_name,
                                   !.parent = parent]
           got == get_row_validator(self)
       IN  binding' = [self EXCEPT
                          !.binds = @ + 1,
                          !.row_validator = IF got.kind = "returned"
                                            THEN got.value
                                            ELSE @,
                          !.last = [called |-> TRUE,
                                    given |-> binding.row_validator,
                                    out |-> got]]
    /\ UNCHANGED <<earlyVars, obf, view, money>>

\* The closure validator called on a row: a serializer of the class is
\* constructed with the captured context and the keys row, index and
\* table_object, validates the row and saves.  instances counts the
\* serializers constructed so far.
Validator(row_is_valid) ==
    /\ binding.called
    /\ binding.row_validator.t = "closure"
    /\ binding.instances < MaxCalls
    /\ binding' = [binding EXCEPT
                      !.instances = @ + 1,
                      !.row = [called |-> TRUE,
                               serializer |->
                                   [class |-> binding.row_validator.name,
                                    instance |-> binding.instances + 1,
                                    context |->
                                        binding.row_validator.context
                                            \cup {"row", "index",
                                                  "table_object"}],
                               events |-> IF row_is_valid
                                          THEN <<"is_valid", "save">>
                                          ELSE <<"is_valid">>,
                               out |-> IF row_is_valid
                                       THEN EnumReturned("saved")
                                       ELSE ValidationError(
                                                [text |-> "invalid row"])]]
    /\ UNCHANGED <<earlyVars, obf, view, money>>

(***************************************************************************)
(* Money field (djkit MoneyField over the amount and currency fields of    *)
(* its model)                                                              *)
(***************************************************************************)
\* A number is its type t and its value v, a currency its code s; isNone
\* marks None.  Money(amount, currency) is a record of kind "Money", None a
\* record of kind "None".  money holds the defaults of the model's amount
\* and currency fields and the two attributes of one instance.

\* MoneyField.get_default
get_default(self) ==
    IF self.default_amount.isNone
    THEN [kind |-> "None"]
    ELSE [kind |-> "Money", amount |-> self.default_amount,
          currency |-> self.default_currency]

\* MoneyField.__set__(instance, value): value is a Money or a plain number
\* (kind "Number"); decimal.Decimal(value.amount) keeps the value and
\* changes the type; a Money is truthy whatever it holds.
MoneySet(value) ==
    /\ money.called
    /\ LET default == get_default(money)
           currency == IF default.kind # "None"
                       THEN default.currency
                       ELSE [isNone |-> TRUE, s |-> ""]
           amount == IF value.kind = "Money"
                     THEN [value.amount EXCEPT !.t = "Decimal"]
                     ELSE value.amount
       IN  money' = [money EXCEPT !.amount = amount,
                                  !.currency = currency,
                                  !.assigned = value,
                                  !.read = NoCall]
    /\ UNCHANGED <<earlyVars, obf, view, binding>>

\* MoneyField.__get__(instance)
MoneyGet ==
    /\ money.called
    /\ money' = [money EXCEPT !.read =
                    [called |-> TRUE,
                     out |-> IF ~money.amount.isNone /\ ~money.currency.isNone
                             THEN [kind |-> "Money",
                                   amount |-> money.amount,
                                   currency |-> money.currency]
                             ELSE get_default(money)]]
    /\ UNCHANGED <<earlyVars, obf, view, binding>>

\* The components a specification does not exercise stay as they are
\* constructed: nothing is called on them.
Idle(running) ==
    /\ IF running = "enum"
       THEN TRUE
       ELSE enum = Level /\ internal = NoCall /\ display = NoCall
    /\ IF running = "renderer" THEN TRUE ELSE rendering = NoCall
    /\ IF running = "io"
       THEN TRUE
       ELSE io = [package |-> "commonkit",
                  input_serializer |->
                      CHOOSE s \in Serializers : ~s.is_serializer,
                  output_serializer |->
                      CHOOSE s \in Serializers : ~s.is_serializer,
                  field_name |-> [isNone |-> TRUE, name |-> ""],
                  has_initial_data |-> FALSE, got |-> NoCall]
    /\ IF running = "recursive"
       THEN TRUE
       ELSE /\ recursive = [package |-> "commonkit", field |-> "parent",
                            categories |-> CHOOSE c \in Categories : TRUE]
            /\ frames = <<>>
            /\ serialized = [kind |-> "none", call |-> "none"]
            /\ delegated = NoCall
    /\ IF running = "obfuscator" THEN TRUE ELSE obf = NoCall
    /\ IF running = "view" THEN TRUE ELSE view = NoCall
    /\ IF running = "binding" THEN TRUE ELSE binding = NoCall
    /\ IF running = "money" THEN TRUE ELSE money = NoCall

(***************************************************************************)
(* View set permissions                                                    *)
(***************************************************************************)
None == [isNone |-> TRUE, list |-> <<>>]

L(list) == [isNone |-> FALSE, list |-> list]

NoAction == "<none>"

StandardActions ==
    {"create", "update", "partial_update", "destroy", "retrieve", "list"}

\* 'eat' is the custom @action of the get_permissions docstring.
CustomActions == {"eat"}

Actions == StandardActions \cup CustomActions

StandardAttrs ==
    {"permission_classes_create", "permission_classes_update",
     "permission_classes_destroy", "permission_classes_retrieve",
     "permission_classes_list"}

CustomAttrs == {"permission_classes_eat"}

AttrNames == StandardAttrs \cup CustomAttrs \cup {"permission_classes"}

\* "permission_classes_{}".format(action)
ConventionAttr(a) ==
    CASE a = "create" -> "permission_classes_create"
      [] a = "update" -> "permission_classes_update"
      [] a = "partial_update" -> "permission_classes_partial_update"
      [] a = "destroy" -> "permission_classes_destroy"
      [] a = "retrieve" -> "permission_classes_retrieve"
      [] a = "list" -> "permission_classes_list"
      [] a = "eat" -> "permission_classes_eat"

\* The attribute a standard action reads in get_action_perms_map.
MapAttr(a) ==
    CASE a = "create" -> "permission_classes_create"
      [] a = "update" -> "permission_classes_update"
      [] a = "partial_update" -> "permission_classes_update"
      [] a = "destroy" -> "permission_classes_destroy"
      [] a = "retrieve" -> "permission_classes_retrieve"
      [] a = "list" -> "permission_classes_list"

\* The class attributes of GenericViewSet (djkit): every list is empty.
DjkitDefaults ==
    [n \in StandardAttrs \cup {"permission_classes"} |-> L(<<>>)]

\* The class attributes of CommonViewSet (drf_common): the per-action ones
\* are None; permission_classes is inherited from the framework's APIView
\* (DEFAULT_PERMISSION_CLASSES, AllowAny unless the settings change it).
DrfCommonDefaults ==
    [n \in StandardAttrs \cup {"permission_classes"} |->
        IF n = "permission_classes" THEN L(<<"AllowAny">>) ELSE None]

ClassDefaults(kind) ==
    IF kind = "djkit" THEN DjkitDefaults ELSE DrfCommonDefaults

\* getattr(self, name, None)
GetAttr(kind, ov, name) ==
    IF name \in DOMAIN ov THEN L(ov[name])
    ELSE IF name \in DOMAIN ClassDefaults(kind) THEN ClassDefaults(kind)[name]
    ELSE None

get_action_perms_map(kind, ov) ==
    [a \in StandardActions |-> GetAttr(kind, ov, MapAttr(a))]

\* [perm() for perm in action_perms]: iterating None is a TypeError; every
\* instance is created by this call (tagged with the call's number).
Instantiate(action_perms, call) ==
    IF action_perms.isNone
    THEN [kind |-> "TypeError", instances |-> <<>>]
    ELSE [kind |-> "ok",
          instances |-> [k \in 1..Len(action_perms.list) |->
                            [cls |-> action_perms.list[k], call |-> call, pos |-> k]]]

\* GenericViewSet.get_permissions (djkit)
DjkitActionPerms(ov, a) ==
    LET action_perms_map == get_action_perms_map("djkit", ov)
    IN  IF a \in DOMAIN action_perms_map
        THEN action_perms_map[a]
        ELSE GetAttr("djkit", ov, "permission_classes")

\* CommonViewSet.get_permissions (drf_common)
DrfCommonActionPerms(ov, a) ==
    LET action_perms_map == get_action_perms_map("drf_common", ov)
        action_perms_on_klass == GetAttr("drf_common", ov, ConventionAttr(a))
    IN  IF a \in DOMAIN action_perms_map
        THEN action_perms_map[a]
        ELSE IF ~action_perms_on_klass.isNone /\ action_perms_on_klass.list # <<>>
        THEN action_perms_on_klass
        ELSE L(<<>>)

ActionPerms(kind, ov, a) ==
    IF kind = "djkit" THEN DjkitActionPerms(ov, a) ELSE DrfCommonActionPerms(ov, a)

\* The lists a subclass may assign to an attribute it defines.
PermLists(n) ==
    IF n \in {"permission_classes", "permission_classes_eat"}
    THEN {<<>>, <<"IsAuthenticated">>, <<"IsAdminUser", "IsAuthenticated">>}
    ELSE IF n = "permission_classes_list"
    THEN {<<>>, <<"IsAdminUser">>}
    ELSE {<<"IsAdminUser">>}

ViewSetConfigs ==
    UNION {{ov \in [S -> UNION {PermLists(n) : n \in S}] :
                \A n \in S : ov[n] \in PermLists(n)} : S \in SUBSET AttrNames}

NoPerms == [kind |-> "none", instances |-> <<>>, for |-> NoAction, call |-> 0]

PermIdle ==
    /\ vsKind = "djkit"
    /\ overrides = <<>>
    /\ action = NoAction
    /\ perms = NoPerms
    /\ calls = 0

\* The framework routes a request to the view and sets self.action.
SetAction(a) ==
    /\ action' = a
    /\ UNCHANGED <<vsKind, overrides, perms, calls>>
    /\ UNCHANGED notPermVars

\* The framework asks the view for the permissions of the current action.
GetPermissions ==
    /\ action # NoAction
    /\ calls < MaxCalls
    /\ calls' = calls + 1
    /\ perms' = [kind |-> Instantiate(ActionPerms(vsKind, overrides, action),
                                      calls + 1).kind,
                 instances |-> Instantiate(ActionPerms(vsKind, overrides, action),
                                           calls + 1).instances,
                 for |-> action,
                 call |-> calls + 1]
    /\ UNCHANGED <<vsKind, overrides, action>>
    /\ UNCHANGED notPermVars


(***************************************************************************)
(* Tabular upload field                                                    *)
(***************************************************************************)

\* A file name is the sequence of its dot-separated components:
\* "report.txt" is <<"report", "txt">>, ".csv" is <<"", "csv">>.
FileNames ==
    {<<"report", "txt">>, <<"data", "csv">>, <<"", "csv">>, <<"notes">>,
     <<"backup", "old", "csv">>}

\* An upload: its name and whether it is empty (size 0).
Uploads == [name : FileNames, empty : BOOLEAN]

NoUpload == [name |-> <<>>, empty |-> FALSE]

\* The framework's FileField.to_internal_value, called first through
\* super(): an upload with size 0 fails with the "empty" message (the names
\* here are never empty, allow_empty_file and max_length are not set).
FileFieldAccepts(data) == ~data.empty

\* Path(file_name).suffix.removeprefix("."): the suffix is the text from the
\* last dot on when that dot is neither the first nor the last character of
\* the name, and empty otherwise.
UploadFormat(name) ==
    LET n == Len(name)
    IN  IF n >= 2 /\ name[n] # "" /\ ~(n = 2 /\ name[1] = "")
        THEN name[n]
        ELSE ""

\* callable(handler): handlers are named by strings, None is not callable.
Callable(h) == h # "None"

NoResult == [kind |-> "none", detail |-> [text |-> ""]]

Returned(t) == [kind |-> "table", detail |-> [text |-> ""], table |-> t]

\* get_format_handler without its callable() test: a faulty variant
\* that C3 must tell apart.
get_format_handler_unchecked(hs, name) ==
    LET upload_format == UploadFormat(name)
    IN  IF upload_format \notin DOMAIN hs /\ "*" \notin DOMAIN hs
        THEN [ok |-> FALSE, handler |-> "None",
              error |-> ValidationError(
                  [text |-> "a handler for format={} was not defined",
                   format |-> upload_format])]
        ELSE IF upload_format \notin DOMAIN hs
        THEN [ok |-> FALSE, handler |-> "None",
              error |-> [kind |-> "KeyError",
                         detail |-> [text |-> "", format |-> upload_format]]]
        ELSE [ok |-> TRUE, handler |-> hs[upload_format], error |-> NoResult]

\* TableUploadField.get_format_handler (commonkit)
get_format_handler(hs, name) ==
    LET upload_format == UploadFormat(name)
    IN  IF upload_format \notin DOMAIN hs /\ "*" \notin DOMAIN hs
        THEN [ok |-> FALSE, handler |-> "None",
              error |-> ValidationError(
                  [text |-> "a handler for format={} was not defined",
                   format |-> upload_format])]
        ELSE IF upload_format \notin DOMAIN hs
        THEN \* handlers[upload_format] on a missing key
             [ok |-> FALSE, handler |-> "None",
              error |-> [kind |-> "KeyError",
                         detail |-> [text |-> "", format |-> upload_format]]]
        ELSE IF ~Callable(hs[upload_format])
        THEN [ok |-> FALSE, handler |-> "None",
              error |-> ValidationError(
                  [text |-> "handler defined for {} is not callable",
                   format |-> upload_format])]
        ELSE [ok |-> TRUE, handler |-> hs[upload_format], error |-> NoResult]

\* keyword arguments are sets of "name=value" items; {} is no argument
NoKwargs == {}

\* TableUploadField.get_handler_kwargs: self.handler_kwargs.get(key, {})
get_handler_kwargs(handler_kwargs, handler_or_format) ==
    IF handler_or_format \in DOMAIN handler_kwargs
    THEN handler_kwargs[handler_or_format]
    ELSE NoKwargs

\* TableUploadField.default_error_messages: each template with the
\* placeholders its text holds ("empty" is one of the FileField messages
\* the dictionary starts from).
default_error_messages ==
    [empty |-> [text |-> "The submitted file is empty.", fields |-> {}],
     row |-> [text |-> "row {row} is invalid: {message}",
              fields |-> {"row", "message"}],
     invalid_format |-> [text |-> "received an unexpected format={format}",
                         fields |-> {"format"}],
     format_handler |-> [text |-> "the format handler raised an error",
                         fields |-> {}]]

EmptyKwargs == [x \in {} |-> ""]

\* msg.format(**kwargs): only the placeholders of the text are substituted.
Format(msg, kwargs) ==
    [text |-> msg.text,
     args |-> [f \in msg.fields \cap DOMAIN kwargs |-> kwargs[f]]]

\* TableUploadField.fail: key "row" builds the row error itself, any other
\* key goes to the framework's Field.fail, which formats the template of
\* the key with the keyword arguments.
fail(key, kwargs) ==
    IF key = "row"
    THEN ValidationError([text |-> "Error in row",
                          original_exception |-> kwargs["message"],
                          row |-> kwargs["row"]])
    ELSE ValidationError(Format(default_error_messages[key], kwargs))

\* update_row assigning to the whole table instead of one row: a faulty
\* variant that C8 must tell apart.
update_row_every_row(table_object, index, new_row) ==
    [k \in DOMAIN table_object |-> new_row]

\* TableUploadField.update_row (commonkit): table_object[index] = new_row
update_row(table_object, index, new_row) ==
    [table_object EXCEPT ![index + 1] = new_row]

\* pandas TableUploadField.update_row: table_object.iloc[index] = new_row
pandas_update_row(table_object, index, new_row) ==
    [table_object EXCEPT ![index + 1] = new_row]

\* django_rest_commons to_internal_value: table_object.iloc[i] = new_value
drc_update_row(table_object, index, new_value) ==
    [table_object EXCEPT ![index + 1] = new_value]

UpdateRow(t, index, new_row) ==
    IF klass = "django_rest_commons" THEN drc_update_row(t, index, new_row)
    ELSE IF variant = "PandasTableUploadField"
    THEN pandas_update_row(t, index, new_row)
    ELSE update_row(t, index, new_row)

\* commonkit process_table tags the error with the loop's i
RowTag(i) == i

\* django_rest_commons to_internal_value tags it with i + 1
drc_RowTag(i) == i + 1

\* The error raised when the row validator raises a validation error.
RowError(e_detail, i) ==
    ValidationError([text |-> "",
                     field_errors |-> e_detail,
                     row |-> IF klass = "django_rest_commons"
                             THEN drc_RowTag(i) ELSE RowTag(i)])

\* ---- the field classes ----

EmptyMap == [x \in {} |-> "None"]

\* commonkit/rest_framework/pandas: handlers
PandasHandlers ==
    [e \in {"csv", "xlsx", "xls", "xlsm", "xlsb", "odf", "ods", "odt", "sql",
            "json", "xml"} |->
        CASE e = "csv" -> "pd.read_csv"
          [] e = "sql" -> "pd.read_sql"
          [] e = "json" -> "pd.read_json"
          [] e = "xml" -> "pd.read_xml"
          [] OTHER -> "pd.read_excel"]

\* commonkit/rest_framework/polars: handlers
PolarsHandlers ==
    [e \in {"csv", "json", "xlsx", "xls", "xlsm", "xltm", "xltx", "xlsb",
            "odf", "ods", "odt"} |->
        CASE e = "csv" -> "pl.read_csv"
          [] e = "json" -> "pl.read_json"
          [] OTHER -> "pl.read_excel"]

\* Registries of user subclasses (class attribute handlers).
UserRegistries ==
    {("csv" :> "handlerA"),
     ("*" :> "wildcard"),
     ("csv" :> "handlerA") @@ ("*" :> "wildcard"),
     ("csv" :> "handlerA") @@ ("txt" :> "None"),
     ("txt" :> "None") @@ ("*" :> "wildcard")}

\* The field classes of commonkit: the base class registers no handler.
CommonkitClasses ==
    {[klass |-> "commonkit", variant |-> "TableUploadField", handlers |-> EmptyMap],
     [klass |-> "commonkit", variant |-> "PandasTableUploadField",
      handlers |-> PandasHandlers],
     [klass |-> "commonkit", variant |-> "PolarsTableUploadField",
      handlers |-> PolarsHandlers]}
    \cup {[klass |-> "commonkit", variant |-> "MyTableUploadField", handlers |-> r] :
            r \in UserRegistries}

\* django_rest_commons: default_format_handlers = {"csv": None}
DrcDefaultFormatHandlers == ("csv" :> "None")

DrcClasses ==
    {[klass |-> "django_rest_commons", variant |-> "TableUploadField",
      handlers |-> DrcDefaultFormatHandlers]}
    \cup {[klass |-> "django_rest_commons", variant |-> "MyTableUploadField",
           handlers |-> r] :
            r \in {EmptyMap, ("csv" :> "handlerA"),
                   ("csv" :> "handlerA") @@ ("txt" :> "None")}}

\* ---- construction ----

Absent == "absent"

\* The keyword arguments a caller passes on to the framework's field.
KwargChoices ==
    {[write_only |-> w, read_only |-> r, required |-> q] :
        w \in {Absent, "True", "False"}, r \in {Absent, "True", "False"},
        q \in {Absent, "True"}}

In(name, kw) == kw[name] # Absent

Sep == {"sep=;"}

\* handler_kwargs as a caller may pass it: keyed by extension, or by handler.
HandlerKwargChoices ==
    {EmptyMap,
     ("csv" :> Sep),
     ("handlerA" :> Sep) @@ ("pd.read_csv" :> Sep) @@ ("pl.read_csv" :> Sep)}

NoValidator == "None"

RowValidators == {NoValidator, "row_validator"}

NotBuilt ==
    [built |-> "no", write_only |-> FALSE, row_validator |-> NoValidator,
     handler_kwargs |-> EmptyMap, kwargs |-> [write_only |-> Absent,
     read_only |-> Absent, required |-> Absent]]

\* __init__ with the write_only assertion alone: a faulty
\* variant that C9 must tell apart.
InitAccepts_write_only(kw) == ~In("write_only", kw)

\* TableUploadField.__init__ (commonkit): the two assertions
InitAccepts(kw) == ~In("write_only", kw) /\ ~In("read_only", kw)

\* TableUploadField.__init__ (django_rest_commons): the two assertions
drc_InitAccepts(kw, hs) == ~In("write_only", kw) /\ DOMAIN hs # {}

\* The framework's Field.__init__(**kwargs, write_only=True) asserts that
\* read_only and write_only are not both set.
FrameworkInitAccepts(kw) == kw.read_only # "True"

Built(kw, rv, hk) ==
    [built |-> "yes", write_only |-> TRUE, row_validator |-> rv,
     handler_kwargs |-> hk, kwargs |-> kw]

Rejected(kw) == [NotBuilt EXCEPT !.built = "rejected", !.kwargs = kw]

UploadIdle ==
    /\ field = NotBuilt
    /\ pc = "idle"
    /\ upload = NoUpload
    /\ parsed = <<>>
    /\ table = <<>>
    /\ idx = 0
    /\ handlerCalls = <<>>
    /\ validatorCalls = <<>>
    /\ raised = "none"
    /\ result = NoResult
    /\ repr = NoResult

InitUpload ==
    /\ \E c \in CommonkitClasses \cup DrcClasses :
          /\ klass = c.klass
          /\ variant = c.variant
          /\ handlers = c.handlers
    /\ UploadIdle
    /\ Idle("none")
    /\ PermIdle

\* field = TableUploadField(row_validator, handler_kwargs=..., **kwargs)
Construct(kw, rv, hk) ==
    /\ field.built = "no"
    /\ klass = "commonkit"
    /\ field' = IF InitAccepts(kw) /\ FrameworkInitAccepts(kw)
                THEN Built(kw, rv, hk)
                ELSE Rejected(kw)
    /\ UNCHANGED <<klass, variant, handlers, pc, upload, parsed, table, idx,
                   handlerCalls, validatorCalls, raised, result, repr>>
    /\ UNCHANGED notUploadVars

\* field = TableUploadField(row_validator, **kwargs)  (django_rest_commons)
DrcConstruct(kw, rv) ==
    /\ field.built = "no"
    /\ klass = "django_rest_commons"
    /\ field' = IF drc_InitAccepts(kw, handlers) /\ FrameworkInitAccepts(kw)
                THEN Built(kw, rv, EmptyMap)
                ELSE Rejected(kw)
    /\ UNCHANGED <<klass, variant, handlers, pc, upload, parsed, table, idx,
                   handlerCalls, validatorCalls, raised, result, repr>>
    /\ UNCHANGED notUploadVars

\* ---- to_internal_value ----

Messages == {"No columns to parse from file", "Excel file format cannot be determined"}

\* A parsed table: row k of the source, k = 0 .. n - 1.
SourceTable(n) == [k \in 1..n |-> [id |-> k - 1, data |-> "source"]]

\* What a format handler may do with an upload: return a table or raise.
HandlerOutcomes ==
    {[raises |-> FALSE, message |-> "none", table |-> SourceTable(n)] : n \in 0..MaxRows}
    \cup {[raises |-> TRUE, message |-> m, table |-> <<>>] : m \in Messages}

\* What a row validator may do with a row: return None, return the row,
\* return a new row, raise a validation error, raise anything else.
ValidatorOutcomes(row) ==
    {[kind |-> "return", isNone |-> TRUE, row |-> row, detail |-> ""],
     [kind |-> "return", isNone |-> FALSE, row |-> row, detail |-> ""],
     [kind |-> "return", isNone |-> FALSE, row |-> [row EXCEPT !.data = "new"],
      detail |-> ""],
     [kind |-> "invalid", isNone |-> TRUE, row |-> row, detail |-> "name is required"],
     [kind |-> "crash", isNone |-> TRUE, row |-> row, detail |-> "KeyError"]}

\* call_format_handler: get_handler_kwargs is given the handler it looked up
HandlerKwargsKey(format_handler, upload_format) == format_handler

\* if self.row_validator: (None is falsy, a callable is truthy)
HasValidator == field.row_validator # NoValidator

\* process_table from its first line: without a validator, or with a table
\* that has no rows, it returns the table at once.
StartProcessTable(t) ==
    /\ parsed' = t
    /\ table' = t
    /\ idx' = 0
    /\ IF HasValidator /\ Len(t) > 0
       THEN pc' = "rows" /\ result' = NoResult
       ELSE pc' = "done" /\ result' = Returned(t)

Finish(r) ==
    /\ pc' = "done"
    /\ result' = r
    /\ UNCHANGED <<parsed, table, idx>>

\* TableUploadField.to_internal_value (commonkit), up to the first call of
\* the row validator.
ToInternalValue(data) ==
    /\ klass = "commonkit"
    /\ field.built = "yes"
    /\ pc = "idle"
    /\ upload' = data
    /\ LET look == get_format_handler(handlers, data.name)
           key == HandlerKwargsKey(look.handler, UploadFormat(data.name))
       IN  IF ~FileFieldAccepts(data)
           THEN /\ Finish(fail("empty", EmptyKwargs))
                /\ UNCHANGED <<handlerCalls, raised>>
           ELSE IF ~look.ok
           THEN /\ Finish(look.error)
                /\ UNCHANGED <<handlerCalls, raised>>
           ELSE \E out \in HandlerOutcomes :
                /\ handlerCalls' = Append(handlerCalls,
                        [handler |-> look.handler, arg |-> "data.file",
                         kwargs |-> get_handler_kwargs(field.handler_kwargs, key)])
                /\ IF out.raises
                   THEN /\ raised' = out.message
                        /\ Finish(fail("format_handler",
                                       [message |-> out.message]))
                   ELSE /\ raised' = "none"
                        /\ StartProcessTable(out.table)
    /\ UNCHANGED <<klass, variant, handlers, field, validatorCalls, repr>>
    /\ UNCHANGED notUploadVars

\* file_name.rsplit(".")[1]: the second dot-separated component
drc_upload_format(name) == name[2]

\* get_format_handlers (django_rest_commons): any(values) must hold
drc_get_format_handlers_ok(hs) == \E e \in DOMAIN hs : Callable(hs[e])

\* self.get_format_handlers().get(upload_format)
drc_format_handler(hs, upload_format) ==
    IF upload_format \in DOMAIN hs THEN hs[upload_format] ELSE "None"

\* TableUploadField.to_internal_value (django_rest_commons), up to the first
\* call of the row validator.
DrcToInternalValue(data) ==
    /\ klass = "django_rest_commons"
    /\ field.built = "yes"
    /\ pc = "idle"
    /\ upload' = data
    /\ IF ~FileFieldAccepts(data)
       THEN /\ Finish(fail("empty", EmptyKwargs))
            /\ UNCHANGED <<handlerCalls, raised>>
       ELSE IF Len(data.name) < 2
       THEN /\ Finish(Raised("IndexError", "list index out of range"))
            /\ UNCHANGED <<handlerCalls, raised>>
       ELSE IF ~drc_get_format_handlers_ok(handlers)
       THEN /\ Finish(Raised("ValueError",
                             "{}.get_format_handlers returned no handlers"))
            /\ UNCHANGED <<handlerCalls, raised>>
       ELSE LET format_handler ==
                    drc_format_handler(handlers, drc_upload_format(data.name))
            IN  IF ~Callable(format_handler)
                THEN \* calling it is a TypeError, caught by the except clause
                     /\ Finish(fail("format_handler",
                                    [message |-> "object is not callable"]))
                     /\ UNCHANGED <<handlerCalls, raised>>
                ELSE \E out \in HandlerOutcomes :
                     /\ handlerCalls' = Append(handlerCalls,
                             [handler |-> format_handler, arg |-> "file",
                              kwargs |-> NoKwargs])
                     /\ IF out.raises
                        THEN /\ raised' = out.message
                             /\ Finish(fail("format_handler",
                                            [message |-> out.message]))
                        ELSE /\ raised' = "none"
                             /\ StartProcessTable(out.table)
    /\ UNCHANGED <<klass, variant, handlers, field, validatorCalls, repr>>
    /\ UNCHANGED notUploadVars

\* One iteration of the row loop (process_table in commonkit, the loop of
\* to_internal_value in django_rest_commons): the validator is called with
\* (row, i, table_object); the loop ends by returning the table.
ValidateRow ==
    /\ pc = "rows"
    /\ LET i == idx
           row == table[i + 1]
       IN  \E out \in ValidatorOutcomes(row) :
           /\ validatorCalls' = Append(validatorCalls,
                   [row |-> row, index |-> i, table |-> table,
                    returned |-> [kind |-> out.kind, isNone |-> out.isNone,
                                  row |-> out.row, detail |-> out.detail]])
           /\ IF out.kind = "return"
              THEN /\ table' = IF out.isNone THEN table
                               ELSE UpdateRow(table, i, out.row)
                   /\ idx' = i + 1
                   /\ IF i + 1 < Len(table)
                      THEN pc' = "rows" /\ result' = NoResult
                      ELSE pc' = "done" /\ result' = Returned(table')
              ELSE /\ pc' = "done"
                   /\ result' = IF out.kind = "invalid"
                                THEN RowError(out.detail, i)
                                ELSE Raised(out.detail, "raised by the row validator")
                   /\ UNCHANGED <<table, idx>>
    /\ UNCHANGED <<klass, variant, handlers, field, upload, parsed, handlerCalls,
                   raised, repr>>
    /\ UNCHANGED notUploadVars

Values == {"{}", "a table"}

\* TableUploadField.to_representation (both packages)
to_representation(value) ==
    [kind |-> "ValidationError",
     detail |-> [text |-> "{} is a write_only field", value |-> value]]

ToRepresentation(value) ==
    /\ field.built = "yes"
    /\ repr' = to_representation(value)
    /\ UNCHANGED <<klass, variant, handlers, field, pc, upload, parsed, table, idx,
                   handlerCalls, validatorCalls, raised, result>>
    /\ UNCHANGED notUploadVars

NextUpload ==
    \/ \E kw \in KwargChoices, rv \in RowValidators, hk \in HandlerKwargChoices :
          Construct(kw, rv, hk)
    \/ \E kw \in KwargChoices, rv \in RowValidators : DrcConstruct(kw, rv)
    \/ \E data \in Uploads : ToInternalValue(data)
    \/ \E data \in Uploads : DrcToInternalValue(data)
    \/ ValidateRow
    \/ \E v \in Values : ToRepresentation(v)

SpecUpload == InitUpload /\ [][NextUpload]_vars

(***************************************************************************)
(* The view set specification                                              *)
(***************************************************************************)
InitPerm ==
    /\ vsKind \in {"djkit", "drf_common"}
    /\ overrides \in ViewSetConfigs
    /\ action = NoAction
    /\ perms = NoPerms
    /\ calls = 0
    /\ klass = "commonkit"
    /\ variant = "TableUploadField"
    /\ handlers = EmptyMap
    /\ UploadIdle
    /\ Idle("none")

NextPerm ==
    \/ \E a \in Actions : SetAction(a)
    \/ GetPermissions

SpecPerm == InitPerm /\ [][NextPerm]_vars

(***************************************************************************)
(* The enum serializer specification                                       *)
(***************************************************************************)
\* EnumSerializer(enum): the assertion of __init__ holds for every
\* enumeration.
InitEnum ==
    /\ enum \in Enumerations
    /\ internal = NoCall
    /\ display = NoCall
    /\ PermIdle
    /\ klass = "commonkit"
    /\ variant = "TableUploadField"
    /\ handlers = EmptyMap
    /\ UploadIdle
    /\ Idle("enum")

NextEnum ==
    \/ \E data \in Labels : EnumToInternalValue(data)
    \/ \E code \in Codes : EnumToRepresentation(code)
    \/ EnumRepresentStored
    \/ EnumAcceptRepresented

SpecEnum == InitEnum /\ [][NextEnum]_vars

(***************************************************************************)
(* The renderer specification                                              *)
(***************************************************************************)
InitRender ==
    /\ rendering = NoCall
    /\ PermIdle
    /\ klass = "commonkit"
    /\ variant = "TableUploadField"
    /\ handlers = EmptyMap
    /\ UploadIdle
    /\ Idle("renderer")

\* The renderer_context argument is None, an empty dict, a dict without a
\* response, or a dict with the response and its status code.
NextRender ==
    \E data \in Payloads,
       ctx \in {[kind |-> k, status_code |-> 0] :
                   k \in {"None", "empty", "no response"}}
                   \cup {[kind |-> "response", status_code |-> c] :
                            c \in {200, 204, 399, 400, 404, 422, 500}} :
        Render(data, ctx)

SpecRender == InitRender /\ [][NextRender]_vars

(***************************************************************************)
(* The split serializer specification                                      *)
(***************************************************************************)
\* IOSerializer(input_serializer, output_serializer, **kwargs): field_name
\* is None until bind; data among the kwargs sets initial_data.
InitIO ==
    /\ io \in [package : {"commonkit", "django_rest_commons"},
               input_serializer : Serializers,
               output_serializer : Serializers,
               field_name : {[isNone |-> TRUE, name |-> ""]},
               has_initial_data : BOOLEAN,
               got : {NoCall}]
    /\ PermIdle
    /\ klass = "commonkit"
    /\ variant = "TableUploadField"
    /\ handlers = EmptyMap
    /\ UploadIdle
    /\ Idle("io")

NextIO ==
    \/ \E field_name \in {"user", "owner"} : IOBind(field_name)
    \/ \E request \in
             {[isNone |-> TRUE, method |-> ""]}
                 \cup {[isNone |-> FALSE, method |-> m] :
                          m \in {"GET", "POST", "PUT", "PATCH", "DELETE",
                                 "OPTIONS"}} :
          IOGetFields(request)

SpecIO == InitIO /\ [][NextIO]_vars

(***************************************************************************)
(* The recursive serializer specification                                  *)
(***************************************************************************)
InitRec ==
    /\ recursive \in [package : {"commonkit", "django_rest_commons", "drf_common"},
                      field : {"parent", "category_set"},
                      categories : Categories]
    /\ frames = <<>>
    /\ serialized = [kind |-> "none", call |-> "none"]
    /\ delegated = NoCall
    /\ PermIdle
    /\ klass = "commonkit"
    /\ variant = "TableUploadField"
    /\ handlers = EmptyMap
    /\ UploadIdle
    /\ Idle("recursive")

NextRec ==
    \/ \E value \in 1..MaxCategories, parent \in {"None", "ListSerializer"} :
          RecStandalone(value, parent)
    \/ \E i \in 1..MaxCategories : RecStart(<<i>>, FALSE)
    \/ \E k \in 0..MaxCategories :
          RecStart([j \in 1..k |-> MaxCategories + 1 - j], TRUE)
    \/ RecStep

\* A call that has started runs on: the code is sequential and nothing
\* else takes a turn.
SpecRec == InitRec /\ [][NextRec]_vars /\ WF_vars(RecStep)

(***************************************************************************)
(* The obfuscator specification                                            *)
(***************************************************************************)
\* Every str of at most MaxLen characters out of a, b and @, either masking
\* character, every cutoff from -1 to MaxCutoff, both directions; a field
\* is constructed with the same choices for its settings.
InitObf ==
    /\ obf \in [called : {FALSE}, fn : {"none"},
                 s : UNION {[1..n -> {"a", "b", "@"}] : n \in 0..MaxLen},
                 char : {"*", "#"}, cutoff : -1..MaxCutoff,
                 from_end : BOOLEAN, out : {NoCall}]
    /\ PermIdle
    /\ klass = "commonkit"
    /\ variant = "TableUploadField"
    /\ handlers = EmptyMap
    /\ UploadIdle
    /\ Idle("obfuscator")

NextObf ==
    \/ Obfuscate
    \/ Email
    \/ CharFieldToRepresentation
    \/ EmailFieldToRepresentation

SpecObf == InitObf /\ [][NextObf]_vars

(***************************************************************************)
(* The create and update mixins specification                              *)
(***************************************************************************)
\* A view of either package, with or without its own input and output
\* serializer classes, over an empty queryset.
InitView ==
    /\ view \in [called : {TRUE},
                 package : {"django_rest_commons", "drf_common"},
                 input_serializer_class : {"None", "InputSerializer"},
                 output_serializer_class : {"None", "OutputSerializer"},
                 objects : {<<>>}, last : {NoCall}]
    /\ PermIdle
    /\ klass = "commonkit"
    /\ variant = "TableUploadField"
    /\ handlers = EmptyMap
    /\ UploadIdle
    /\ Idle("view")

NextView ==
    \E data \in SUBSET {"name", "password"} :
        \/ Create(data)
        \/ \E pk \in 1..MaxCalls : Update(pk, data)

SpecView == InitView /\ [][NextView]_vars

(***************************************************************************)
(* The row validator specification                                         *)
(***************************************************************************)
\* TableUploadField(row_validator): nothing, the name of a method, a
\* serializer class, another class, a function or a number; the context is
\* that of the serializer the field is declared on.
InitBind ==
    /\ \E row_validator \in
              {[t |-> "NoneType", name |-> "", bases |-> {}],
               [t |-> "str", name |-> "check_row", bases |-> {}],
               [t |-> "class", name |-> "RowSerializer",
                bases |-> {"Serializer"}],
               [t |-> "class", name |-> "dict", bases |-> {}],
               [t |-> "function", name |-> "row_validator", bases |-> {}],
               [t |-> "int", name |-> "", bases |-> {}]},
          context \in {{}, {"request"}} :
           binding = [called |-> TRUE,
                      row_validator |-> row_validator @@ [context |-> {}],
                      context |-> context, field_name |-> "",
                      parent |-> {}, binds |-> 0, instances |-> 0,
                      last |-> NoCall, row |-> NoCall]
    /\ PermIdle
    /\ klass = "commonkit"
    /\ variant = "TableUploadField"
    /\ handlers = EmptyMap
    /\ UploadIdle
    /\ Idle("binding")

NextBind ==
    \/ \E field_name \in {"table", "sheet"},
          parent \in SUBSET {"check_row", "validate_table_row"} :
           Bind(field_name, parent)
    \/ \E row_is_valid \in BOOLEAN : Validator(row_is_valid)

SpecBind == InitBind /\ [][NextBind]_vars

(***************************************************************************)
(* The money field specification                                           *)
(***************************************************************************)
\* A model whose amount field has no default or a default of 0 or 1 and
\* whose currency field has no default or a default of USD or EUR; a new
\* instance has the defaults as its attributes and nothing was assigned.
InitMoney ==
    /\ \E default_amount \in
              {[isNone |-> TRUE, t |-> "NoneType", v |-> 0]}
                  \cup {[isNone |-> FALSE, t |-> "int", v |-> n] :
                           n \in 0..1},
          default_currency \in
              {[isNone |-> TRUE, s |-> ""]}
                  \cup {[isNone |-> FALSE, s |-> c] : c \in {"USD", "EUR"}} :
           money = [called |-> TRUE, default_amount |-> default_amount,
                    default_currency |-> default_currency,
                    amount |-> default_amount,
                    currency |-> default_currency,
                    assigned |-> [kind |-> "None"], read |-> NoCall]
    /\ PermIdle
    /\ klass = "commonkit"
    /\ variant = "TableUploadField"
    /\ handlers = EmptyMap
    /\ UploadIdle
    /\ Idle("money")

\* instance.price = Money(a, c), instance.price = a, instance.price
NextMoney ==
    \/ \E a \in 0..2, c \in {"USD", "EUR"} :
           MoneySet([kind |-> "Money",
                     amount |-> [isNone |-> FALSE, t |-> "int", v |-> a],
                     currency |-> [isNone |-> FALSE, s |-> c]])
    \/ \E a \in 0..2 :
           MoneySet([kind |-> "Number",
                     amount |-> [isNone |-> FALSE, t |-> "int", v |-> a],
                     currency |-> [isNone |-> TRUE, s |-> ""]])
    \/ MoneyGet

SpecMoney == InitMoney /\ [][NextMoney]_vars

(***************************************************************************)
(* Claims about the view set permissions (checked under SpecPerm)          *)
(***************************************************************************)

\* The list the resolution order of C1 selects for action a: the entry of the
\* per-action map, else the attribute permission_classes_<action> when the
\* view set defines it, else the base default list.
ClaimedActionPerms(kind, ov, a) ==
    IF a \in StandardActions
    THEN get_action_perms_map(kind, ov)[a]
    ELSE IF ConventionAttr(a) \in DOMAIN ov
    THEN L(ov[ConventionAttr(a)])
    ELSE GetAttr(kind, ov, "permission_classes")

\* C1: get_permissions returns one new instance of every class of the list
\* chosen in the order: per-action map entry, permission_classes_<action>,
\* base default list (so 'eat' with permission_classes_eat is guarded by
\* exactly those classes).
C1_ResolutionOrder ==
    perms.kind # "none" =>
        LET want == Instantiate(ClaimedActionPerms(vsKind, overrides, perms.for),
                                perms.call)
        IN  /\ perms.kind = want.kind
            /\ Len(perms.instances) = Len(want.instances)
            /\ \A k \in 1..Len(want.instances) :
                    perms.instances[k] = want.instances[k]

\* The view set configured no per-action permission list for action a.
NotConfigured(ov, a) ==
    IF a \in StandardActions
    THEN MapAttr(a) \notin DOMAIN ov
    ELSE ConventionAttr(a) \notin DOMAIN ov

\* C2: in the djkit GenericViewSet, every action without a per-action list
\* of its own, standard or custom, gets one instance of each class of
\* permission_classes.
C2_FallbackForAllActions ==
    (vsKind = "djkit" /\ perms.kind # "none" /\ NotConfigured(overrides, perms.for)) =>
        LET base == GetAttr("djkit", overrides, "permission_classes").list
        IN  /\ perms.kind = "ok"
            /\ Len(perms.instances) = Len(base)
            /\ \A k \in 1..Len(base) : perms.instances[k].cls = base[k]

(***************************************************************************)
(* Claims about the tabular upload field (checked under SpecUpload)        *)
(***************************************************************************)

\* The text after the last dot of the file name (none without a dot).
TextAfterLastDot(name) == IF Len(name) >= 2 THEN name[Len(name)] ELSE ""

NotDefinedError(e) ==
    ValidationError([text |-> "a handler for format={} was not defined",
                     format |-> e])

\* The handler lookup of C3, for the extension e of the uploaded file.
LookupRejects(e) ==
    /\ (e \notin DOMAIN handlers /\ "*" \notin DOMAIN handlers) =>
            /\ result = NotDefinedError(e)
            /\ handlerCalls = <<>>
            /\ validatorCalls = <<>>
    /\ (e \in DOMAIN handlers /\ ~Callable(handlers[e])) =>
            /\ result.kind = "ValidationError"
            /\ handlerCalls = <<>>
            /\ validatorCalls = <<>>

\* C3 as stated, for an upload the framework's file checks accept: the
\* extension is the text after the last dot of the name;
\* an unregistered extension (no "*" entry) is a validation error naming it,
\* a non-callable handler is a validation error, and neither a handler nor
\* the row validator is invoked.
C3_LookupByTextAfterLastDot ==
    (klass = "commonkit" /\ pc # "idle" /\ FileFieldAccepts(upload)) =>
        LookupRejects(TextAfterLastDot(upload.name))

\* C3 amended: the same, the extension being the suffix of the name without
\* its dot: the text after the last dot when that dot is neither the first
\* nor the last character of the name, and the empty string otherwise.
C3_LookupBySuffix ==
    (klass = "commonkit" /\ pc # "idle" /\ FileFieldAccepts(upload)) =>
        LookupRejects(UploadFormat(upload.name))

C3_Witness ==
    /\ klass = "commonkit"
    /\ pc = "done"
    /\ upload = [name |-> <<"report", "txt">>, empty |-> FALSE]
    /\ "txt" \notin DOMAIN handlers
    /\ handlers # EmptyMap
    /\ result = NotDefinedError("txt")

\* C4: with a "*" entry in the registry, a file whose extension is not a key
\* is parsed by the "*" handler; a file whose extension is a key is parsed by
\* its own handler.
C4_WildcardFallback ==
    (klass = "commonkit" /\ pc # "idle" /\ FileFieldAccepts(upload)) =>
        LET e == UploadFormat(upload.name)
        IN  /\ (e \notin DOMAIN handlers /\ "*" \in DOMAIN handlers
                    /\ Callable(handlers["*"])) =>
                    /\ Len(handlerCalls) = 1
                    /\ handlerCalls[1].handler = handlers["*"]
            /\ (e \in DOMAIN handlers /\ Callable(handlers[e])) =>
                    /\ Len(handlerCalls) = 1
                    /\ handlerCalls[1].handler = handlers[e]

\* C5: the handler of extension E is invoked with the file content and
\* exactly the keyword arguments handler_kwargs maps E to, and with no
\* keyword arguments when handler_kwargs has no entry for E.
C5_KwargsPerExtension ==
    (klass = "commonkit" /\ handlerCalls # <<>>) =>
        LET e == UploadFormat(upload.name)
        IN  /\ handlerCalls[1].arg = "data.file"
            /\ handlerCalls[1].kwargs =
                    IF e \in DOMAIN field.handler_kwargs
                    THEN field.handler_kwargs[e]
                    ELSE NoKwargs

\* C6: when the format handler raises an exception with message M,
\* to_internal_value raises a validation error that carries M, and the row
\* validator is not invoked.
C6_HandlerFailureCarriesMessage ==
    (klass = "commonkit" /\ raised # "none") =>
        /\ result.kind = "ValidationError"
        /\ \E f \in DOMAIN result.detail.args : result.detail.args[f] = raised
        /\ validatorCalls = <<>>

\* C7: the row validator is invoked with (row, index, table) on the rows in
\* table order, at most once per row; when it raises a validation error on
\* row i the error raised is tagged with row = i and carries the validator's
\* detail, no later row is validated and no table is returned.
C7_OrderedFailFast ==
    /\ \A k \in 1..Len(validatorCalls) :
            /\ validatorCalls[k].index = k - 1
            /\ validatorCalls[k].row = parsed[k]
            /\ Len(validatorCalls[k].table) = Len(parsed)
            /\ k < Len(validatorCalls) => validatorCalls[k].returned.kind = "return"
    /\ (validatorCalls # <<>>
            /\ validatorCalls[Len(validatorCalls)].returned.kind = "invalid") =>
            LET last == validatorCalls[Len(validatorCalls)]
            IN  /\ pc = "done"
                /\ result.kind = "ValidationError"
                /\ result.detail.row = last.index
                /\ result.detail.field_errors = last.returned.detail

\* The row validator returned a row (not None) for the row with index i.
Replaced(i) ==
    \E k \in 1..Len(validatorCalls) :
        /\ validatorCalls[k].index = i
        /\ validatorCalls[k].returned.kind = "return"
        /\ ~validatorCalls[k].returned.isNone

Replacement(i) ==
    (CHOOSE c \in {validatorCalls[k] : k \in 1..Len(validatorCalls)} :
        c.index = i).returned.row

\* C8: a row for which the validator returned a value holds that value, every
\* other row is as the handler produced it; the table returned is that table,
\* so with no validator, or one that returns None for every row, it is
\* exactly the table the handler produced.
C8_RowReplacement ==
    pc # "idle" =>
        /\ Len(table) = Len(parsed)
        /\ \A p \in 1..Len(table) :
                table[p] = IF Replaced(p - 1) THEN Replacement(p - 1) ELSE parsed[p]
        /\ result.kind = "table" =>
                /\ result.table = table
                /\ (\A p \in 1..Len(parsed) : ~Replaced(p - 1)) => result.table = parsed

C8_Witness ==
    /\ result.kind = "table"
    /\ Len(parsed) >= 2
    /\ Replaced(1)
    /\ ~Replaced(0)
    /\ Len(validatorCalls) = Len(parsed)
    /\ table[2] # parsed[2]
    /\ table[1] = parsed[1]

\* C9: construction is rejected whenever the caller passes write_only or
\* read_only, whatever the value; every constructed field has
\* write_only = TRUE; to_representation raises a validation error for every
\* value.
C9_WriteOnly ==
    klass = "commonkit" =>
        /\ (field.built # "no"
                /\ (In("write_only", field.kwargs) \/ In("read_only", field.kwargs))) =>
                field.built = "rejected"
        /\ field.built = "yes" => field.write_only = TRUE
        /\ repr # NoResult => repr.kind = "ValidationError"

C9_Witness ==
    /\ klass = "commonkit"
    /\ variant \in {"PandasTableUploadField", "PolarsTableUploadField"}
    /\ field.built = "yes"
    /\ field.write_only
    /\ pc = "done"
    /\ result.kind = "table"
    /\ repr.kind = "ValidationError"

\* A registry that is empty or holds a value that is not callable.
BadRegistry(hs) == DOMAIN hs = {} \/ \E e \in DOMAIN hs : ~Callable(hs[e])

\* C10: a field whose registry is empty or holds a non-callable value can
\* never parse an upload (it is invalid configuration); the registries of the
\* pandas and polars variants are non-empty with every value callable.
C10_RegistryInvariant ==
    /\ BadRegistry(handlers) => result.kind # "table"
    /\ variant \in {"PandasTableUploadField", "PolarsTableUploadField"} =>
            ~BadRegistry(handlers)

(***************************************************************************)
(* Claims about the enum serializer (checked under SpecEnum)               *)
(***************************************************************************)

\* The names of the bound enumeration.
EnumNames == {enum.body[i].name : i \in 1..Len(enum.body)}

\* The display form the claims give an entry of the class body: its value
\* when that is a string, else its name.
DisplayForm(entry) ==
    IF entry.value.t = "str" THEN PyStr(entry.value.s) ELSE PyStr(entry.name)

\* Entry i is the first entry in definition order whose value equals code.
FirstWithValue(i, code) ==
    /\ PyEq(enum.body[i].value, code)
    /\ \A j \in 1..(i - 1) : ~PyEq(enum.body[j].value, code)

\* C11: to_internal_value(m.name) returns the stored value of m for every
\* member m of the bound enumeration ("EXEMPTED" -> "exempted",
\* "BEGINNER" -> 0); for every input that is not the name of a member it
\* raises a validation error and returns no value.
C11_ToInternalValue ==
    internal.called =>
        IF internal.data.t = "str" /\ internal.data.s \in EnumNames
        THEN \A i \in 1..Len(enum.body) :
                 enum.body[i].name = internal.data.s
                     => internal.out = EnumReturned(enum.body[i].value)
        ELSE internal.out.kind = "ValidationError"

\* C12: the validation error raised for an unknown label lists exactly the
\* labels that to_internal_value accepts: every listed key is accepted when
\* given as input, and every accepted label is listed.
C12_ErrorListsAcceptedLabels ==
    (internal.called /\ internal.out.kind = "ValidationError") =>
        LET keys == internal.out.detail.keys
            listed == {keys[i] : i \in 1..Len(keys)}
            texts == listed \cup {l.s : l \in {d \in Labels : d.t = "str"}}
            accepted ==
                {s \in texts :
                    enum_to_internal_value(enum, PyStr(s)).kind = "returned"}
        IN  listed = accepted

\* C13: for every stored code equal to the value of some member,
\* to_representation returns the display form of the first such member in
\* definition order: the value when it is a string, otherwise the name.
C13_ToRepresentation ==
    display.called =>
        \A i \in 1..Len(enum.body) :
            FirstWithValue(i, display.code)
                => display.out = EnumReturned(DisplayForm(enum.body[i]))

\* The string code of the second member of MilitaryStatus is represented
\* by the value itself.
C13_Witness ==
    /\ enum = MilitaryStatus
    /\ display.called
    /\ display.code = PyStr("served")
    /\ display.out = EnumReturned(PyStr("served"))

\* C14: for every code that equals the value of no member, to_representation
\* raises a validation error whose message names that code and returns no
\* label; every code that is accepted corresponds to exactly one display
\* label, the label returned.
C14_UnknownCode ==
    display.called =>
        LET known == {i \in 1..Len(enum.body) :
                         PyEq(enum.body[i].value, display.code)}
            labels == {DisplayForm(enum.body[i]) :
                          i \in {k \in known : FirstWithValue(k, display.code)}}
        IN  /\ known = {} =>
                /\ display.out.kind = "ValidationError"
                /\ display.out.detail.code = Str(display.code)
            /\ display.out.kind = "returned" =>
                /\ known # {}
                /\ labels = {display.out.value}

\* The code 3 of no member of Level is refused by name.
C14_Witness ==
    /\ enum = Level
    /\ display.called
    /\ display.code = PyInt(3)
    /\ display.out.kind = "ValidationError"
    /\ display.out.detail.code = "3"

\* C15: for every member m, to_representation(to_internal_value(m.name))
\* succeeds and equals the canonical display form of m (the value of m if
\* it is a string, else the name of m).  A name of the class body stands
\* for the member that first has its value.
C15_RoundTrip ==
    \A i \in 1..Len(enum.body) :
        LET m == enum.body[CHOOSE j \in 1..i :
                               FirstWithValue(j, enum.body[i].value)]
        IN  /\ (internal.called /\ internal.data = PyStr(enum.body[i].name))
                   => internal.out.kind = "returned"
            /\ (/\ display.called
                /\ display.fromInput
                /\ display.data = PyStr(enum.body[i].name))
                   => display.out = EnumReturned(DisplayForm(m))

\* "EXEMPTED" went in, was stored as "exempted" and came back as "exempted".
C15_Witness ==
    /\ enum = MilitaryStatus
    /\ display.called
    /\ display.fromInput
    /\ display.data = PyStr("EXEMPTED")
    /\ display.code = PyStr("exempted")
    /\ display.out = EnumReturned(PyStr("exempted"))

\* C28: for every member m, to_internal_value(to_representation(m.value))
\* succeeds and returns m.value: the label rendered for a stored code is
\* accepted as input and stands for that code.
C28_OutputAccepted ==
    (internal.called /\ "code" \in DOMAIN internal)
    => \A i \in 1..Len(enum.body) :
           internal.code = enum.body[i].value
               => internal.out = EnumReturned(enum.body[i].value)

(***************************************************************************)
(* Claims about the JSON renderer (checked under SpecRender)               *)
(***************************************************************************)

\* The response of the last render call has a status code of at least 400.
ErrorResponse ==
    /\ rendering.called
    /\ rendering.renderer_context.kind = "response"
    /\ rendering.renderer_context.status_code >= 400

\* C16: whenever the bound response has a status code >= 400 (400 included)
\* the rendered payload is an object with exactly the keys field_errors and
\* non_field_errors: a mapping payload P renders as field_errors = P with
\* non_field_errors = [], any other iterable payload L as
\* non_field_errors = L with field_errors = {}.
C16_ErrorReshaping ==
    ErrorResponse =>
        LET P == rendering.data
            out == rendering.out
        IN  /\ out.bytes = "json"
            /\ out.doc.j = "object"
            /\ out.doc.keys = <<"field_errors", "non_field_errors">>
            /\ P.t = "dict" =>
                   /\ out.doc.members[1] =
                          [j |-> "object", keys |-> P.keys, items |-> P.items]
                   /\ out.doc.members[2] =
                          [j |-> "array", keys |-> <<>>, items |-> <<>>]
            /\ P.t \in {"list", "tuple", "str"} =>
                   /\ out.doc.members[1] =
                          [j |-> "object", keys |-> <<>>, items |-> <<>>]
                   /\ out.doc.members[2] =
                          [j |-> IF P.t = "str" THEN "string" ELSE "array",
                           keys |-> <<>>, items |-> P.items]

\* Status 400 with {"name": ["required"]} was rendered with the wrapper.
C16_Witness ==
    /\ ErrorResponse
    /\ rendering.renderer_context.status_code = 400
    /\ rendering.data.keys = <<"name">>
    /\ rendering.out.doc.members[1].keys = <<"name">>
    /\ rendering.out.doc.members[2].items = <<>>

\* C17: whenever the bound response has a status code < 400 (399
\* included), and whenever no response is bound in the renderer context,
\* the payload is rendered unchanged: no field_errors / non_field_errors
\* wrapper and no other transformation.
C17_PassThrough ==
    (rendering.called /\ ~ErrorResponse) =>
        /\ rendering.out = base_render(rendering.data)
        /\ rendering.out.bytes = "json" =>
               /\ "members" \notin DOMAIN rendering.out.doc
               /\ rendering.out.doc.keys = rendering.data.keys
               /\ rendering.out.doc.items = rendering.data.items

\* Status 399 with {"key": "value"} was rendered as {"key": "value"}.
C17_Witness ==
    /\ rendering.called
    /\ rendering.renderer_context.kind = "response"
    /\ rendering.renderer_context.status_code = 399
    /\ rendering.out =
           [bytes |-> "json",
            doc |-> [j |-> "object", keys |-> <<"key">>, items |-> <<"value">>]]

(***************************************************************************)
(* Claims about the split serializer (checked under SpecIO)                *)
(***************************************************************************)

\* C18: holding two serializer instances, get_fields returns the field set
\* of the input serializer (the set its own get_fields returns) when the
\* context carries a request whose method is POST, PUT or PATCH, the field
\* set of the output serializer when the context carries a request with
\* any other method, and the field set of the output serializer when the
\* context carries no request.
C18_FieldSetResolution ==
    (/\ io.got.called
     /\ io.input_serializer.is_serializer
     /\ io.output_serializer.is_serializer) =>
        LET request == io.got.request
            chosen == IF ~request.isNone
                         /\ request.method \in {"POST", "PUT", "PATCH"}
                      THEN io.input_serializer
                      ELSE io.output_serializer
        IN  io.got.out = serializer_get_fields(chosen)

(***************************************************************************)
(* Claims about the recursive serializer (checked under SpecRec)           *)
(***************************************************************************)

\* What the enclosing serializer returns for an instance: the instance
\* serialized again through CategorySerializer.
RECURSIVE Reserialized(_)
Reserialized(inst) ==
    LET rel == Related(recursive, inst)
    IN  [id |-> inst, name |-> recursive.categories[inst].name,
         key |-> recursive.field,
         isNull |-> recursive.field = "parent" /\ rel = <<>>,
         nested |-> [k \in 1..Len(rel) |-> Reserialized(rel[k])]]

\* C19: used without a parent serializer, to_representation raises a
\* validation error; with a parent, to_representation(value) returns
\* exactly what the enclosing serializer (the parent, or the parent of the
\* parent when the parent is a list serializer) returns for value, so the
\* nested object has the keys of the instance serialized again.
C19_Delegation ==
    /\ (serialized.call = "standalone" /\ serialized.parent = "None")
           => serialized.kind = "ValidationError"
    /\ delegated.called => delegated.out = Reserialized(delegated.value)

\* The number of ancestors of an instance.
RECURSIVE Ancestors(_)
Ancestors(inst) ==
    IF recursive.categories[inst].parent = 0
    THEN 0
    ELSE 1 + Ancestors(recursive.categories[inst].parent)

\* The number of levels nested under the parent key of a dict.
RECURSIVE Levels(_)
Levels(d) == IF d.isNull THEN 0 ELSE 1 + Levels(d.nested[1])

\* Every level of the dict carries the id and the name of the instance it
\* stands for, and the parent is null at the root only.
RECURSIVE OwnIdAndName(_, _)
OwnIdAndName(d, inst) ==
    /\ d.id = inst
    /\ d.name = recursive.categories[inst].name
    /\ d.key = "parent"
    /\ IF d.isNull
       THEN recursive.categories[inst].parent = 0 /\ d.nested = <<>>
       ELSE /\ recursive.categories[inst].parent # 0
            /\ Len(d.nested) = 1
            /\ OwnIdAndName(d.nested[1], recursive.categories[inst].parent)

SerializedChain(d, inst) ==
    /\ Levels(d) = Ancestors(inst)
    /\ OwnIdAndName(d, inst)

\* C20: serializing an instance with n ancestors through a serializer whose
\* parent field is a RecursiveSerializer finishes, without an error, and
\* yields n nested levels under the parent key, each with the id and name
\* of that ancestor and a null parent at the root; for a single instance
\* and for every element of a many=True list.
C20_Terminates ==
    /\ [](recursive.field = "parent" /\ serialized.call = "data"
             => /\ serialized.kind \in {"running", "returned"}
                /\ serialized.kind = "returned" =>
                       IF serialized.many
                       THEN /\ Len(serialized.data) = Len(serialized.instances)
                            /\ \A k \in 1..Len(serialized.data) :
                                   SerializedChain(serialized.data[k],
                                                   serialized.instances[k])
                       ELSE SerializedChain(serialized.data,
                                            serialized.instances[1]))
    /\ (recursive.field = "parent" /\ serialized.kind = "running")
           ~> (serialized.kind = "returned")

\* A many=True list came back whose first element has two nested levels.
C20_Witness ==
    /\ recursive.field = "parent"
    /\ serialized.call = "data"
    /\ serialized.kind = "returned"
    /\ serialized.many
    /\ Len(serialized.data) = MaxCategories
    /\ Levels(serialized.data[1]) = 2
    /\ serialized.data[1].nested[1].nested[1].isNull

(***************************************************************************)
(* Claims about the Obfuscator and the obfuscated fields (checked under    *)
(* SpecObf)                                                                *)
(***************************************************************************)

\* C21: obfuscate from the end with 0 < cutoff < len(s) returns a str of
\* length len(s) whose first len(s) - cutoff characters are those of s and
\* whose last cutoff characters are all char.
C21_FromEnd ==
    (/\ obf.called
     /\ obf.fn = "obfuscate"
     /\ obf.from_end
     /\ 0 < obf.cutoff
     /\ obf.cutoff < Len(obf.s))
    => /\ obf.out.kind = "returned"
       /\ Len(obf.out.value) = Len(obf.s)
       /\ SubSeq(obf.out.value, 1, Len(obf.s) - obf.cutoff)
              = SubSeq(obf.s, 1, Len(obf.s) - obf.cutoff)
       /\ \A i \in (Len(obf.s) - obf.cutoff + 1)..Len(obf.s) :
              obf.out.value[i] = obf.char

\* C22: obfuscate from the start with 0 < cutoff < len(s) returns a str of
\* length len(s) whose first cutoff characters are all char and whose other
\* characters are the last len(s) - cutoff characters of s.
C22_FromStart ==
    (/\ obf.called
     /\ obf.fn = "obfuscate"
     /\ ~obf.from_end
     /\ 0 < obf.cutoff
     /\ obf.cutoff < Len(obf.s))
    => /\ obf.out.kind = "returned"
       /\ Len(obf.out.value) = Len(obf.s)
       /\ \A i \in 1..obf.cutoff : obf.out.value[i] = obf.char
       /\ \A i \in (obf.cutoff + 1)..Len(obf.s) :
              obf.out.value[i] = obf.s[i]

\* "ab@" masked from the start with cutoff 2 came out as "##@".
C22_Witness ==
    /\ obf.called
    /\ obf.fn = "obfuscate"
    /\ ~obf.from_end
    /\ obf.s = <<"a", "b", "@">>
    /\ obf.cutoff = 2
    /\ obf.out = EnumReturned(<<"#", "#", "@">>)

\* C23: in either direction cutoff 0 returns s itself, a cutoff that is
\* positive and at least len(s) returns len(s) times char, and a negative
\* cutoff returns nothing and raises ValueError.
C23_Boundary ==
    (obf.called /\ obf.fn = "obfuscate")
    => /\ obf.cutoff = 0 => obf.out = EnumReturned(obf.s)
       /\ (obf.cutoff > 0 /\ obf.cutoff >= Len(obf.s))
          => /\ obf.out.kind = "returned"
             /\ Len(obf.out.value) = Len(obf.s)
             /\ \A i \in 1..Len(obf.s) : obf.out.value[i] = obf.char
       /\ obf.cutoff < 0 => obf.out.kind = "ValueError"

\* "ab" with a cutoff of 2, its own length, came out as "**".
C23_Witness ==
    /\ obf.called
    /\ obf.fn = "obfuscate"
    /\ obf.s = <<"a", "b">>
    /\ obf.cutoff = 2
    /\ obf.out = EnumReturned(<<"*", "*">>)

\* The positions of "@" in a str, and the two parts of local@domain.
Ats(e) == {i \in 1..Len(e) : e[i] = "@"}

LocalPart(e) == SubSeq(e, 1, (CHOOSE i \in Ats(e) : TRUE) - 1)

DomainPart(e) == SubSeq(e, (CHOOSE i \in Ats(e) : TRUE) + 1, Len(e))

\* What masking the local part alone gives: the obfuscated local part, "@"
\* and the domain, or the error of obfuscate.
MaskedAddress(e, char, cutoff, from_end) ==
    LET masked == obfuscate(LocalPart(e), char, cutoff, from_end)
    IN  IF masked.kind = "returned"
        THEN EnumReturned(masked.value \o <<"@">> \o DomainPart(e))
        ELSE masked

\* C24: email of local@domain is obfuscate(local, char, cutoff, from_end)
\* followed by "@" and the domain as it was, and email of a value without
\* "@" returns nothing and raises ValueError.
C24_Email ==
    (obf.called /\ obf.fn = "email")
    => /\ Ats(obf.s) = {} => obf.out.kind = "ValueError"
       /\ Cardinality(Ats(obf.s)) = 1
          => /\ obf.out = MaskedAddress(obf.s, obf.char, obf.cutoff,
                                        obf.from_end)
             /\ obf.out.kind = "returned"
                => SubSeq(obf.out.value,
                          Len(obf.out.value) - Len(DomainPart(obf.s)) + 1,
                          Len(obf.out.value)) = DomainPart(obf.s)

\* "a@b" masked from the start with "#" came out as "#@b".
C24_Witness ==
    /\ obf.called
    /\ obf.fn = "email"
    /\ obf.s = <<"a", "@", "b">>
    /\ obf.cutoff = 2
    /\ ~obf.from_end
    /\ obf.out = EnumReturned(<<"#", "@", "b">>)

\* C29: to_representation of an obfuscated field is the Obfuscator result
\* for the field's own cutoff, char and from_end: obfuscate of the value for
\* ObfuscatedCharField, the masked local part, "@" and the domain for
\* ObfuscatedEmailField.
C29_FieldSettings ==
    obf.called
    => /\ obf.fn = "ObfuscatedCharField"
          => obf.out = obfuscate(obf.s, obf.char, obf.cutoff, obf.from_end)
       /\ (obf.fn = "ObfuscatedEmailField" /\ Cardinality(Ats(obf.s)) = 1)
          => obf.out = MaskedAddress(obf.s, obf.char, obf.cutoff,
                                     obf.from_end)

(***************************************************************************)
(* Claims about the create and update mixins (checked under SpecView)      *)
(***************************************************************************)

\* C25: a create or update validates the request data with the input
\* serializer (input_serializer_class if set, else the default class); it
\* saves only after validation succeeded, so invalid data saves nothing;
\* then it responds with the data of the output serializer
\* (output_serializer_class if set, else the default) for the saved
\* instance, with status 201 for create.
C25_FixedOrder ==
    (/\ view.called
     /\ view.last.called
     /\ view.last.out.kind # "Http404")
    => LET input == IF view.input_serializer_class # "None"
                    THEN view.input_serializer_class
                    ELSE "Serializer"
           output == IF view.output_serializer_class # "None"
                     THEN view.output_serializer_class
                     ELSE "Serializer"
           saved == IF view.last.handler = "create"
                    THEN view.objects[Len(view.objects)]
                    ELSE view.objects[view.last.pk]
       IN  /\ view.last.validated_by = input
           /\ IF is_valid(input, view.last.data)
              THEN /\ view.last.events = <<"is_valid", "save", "Response">>
                   /\ saved = [saved_by |-> input, data |-> view.last.data]
                   /\ view.last.out.kind = "Response"
                   /\ view.last.out.body =
                          [serializer |-> output, instance |-> saved]
                   /\ view.last.handler = "create"
                      => view.last.out.status = 201
              ELSE /\ view.last.events = <<"is_valid">>
                   /\ view.last.out.kind = "ValidationError"
                   /\ view.objects = view.last.before

(***************************************************************************)
(* Claims about the row validator (checked under SpecBind)                 *)
(***************************************************************************)

\* C26: on bind a str resolves to the parent's method of that name and is
\* an error when the parent has none; a Serializer subclass resolves to a
\* validator that validates and saves each row through a fresh instance
\* whose context is the field's context with row, index and table_object
\* added; no row_validator resolves to the parent's validate_<field>_row
\* when it has one and to None otherwise; any other class and any value of
\* an unrecognized type is an error raised at bind.
C26_Resolution ==
    /\ (binding.called /\ binding.last.called)
       => LET given == binding.last.given
              out == binding.last.out
              conventional == IF binding.field_name = "table"
                              THEN "validate_table_row"
                              ELSE "validate_sheet_row"
          IN  /\ given.t = "str"
                 => IF given.name \in binding.parent
                    THEN /\ out.kind = "returned"
                         /\ out.value.t = "method"
                         /\ out.value.name = given.name
                         /\ binding.row_validator = out.value
                    ELSE out.kind = "ValidationError"
              /\ (given.t = "class" /\ "Serializer" \in given.bases)
                 => /\ out.kind = "returned"
                    /\ out.value.t = "closure"
                    /\ out.value.name = given.name
                    /\ out.value.context = binding.context
                    /\ binding.row_validator = out.value
              /\ given.t = "NoneType"
                 => /\ out.kind = "returned"
                    /\ binding.row_validator = out.value
                    /\ IF conventional \in binding.parent
                       THEN /\ out.value.t = "method"
                            /\ out.value.name = conventional
                       ELSE out.value.t = "NoneType"
              /\ \/ given.t = "class" /\ "Serializer" \notin given.bases
                 \/ given.t = "int"
                 => /\ out.kind = "ValidationError"
                    /\ binding.row_validator = given
    /\ (binding.called /\ binding.row.called)
       => /\ binding.row.serializer.class = binding.row_validator.name
          /\ binding.row.serializer.instance = binding.instances
          /\ binding.row.serializer.context =
                 binding.context \cup {"row", "index", "table_object"}
          /\ binding.row.events[1] = "is_valid"
          /\ binding.row.out.kind = "returned"
             <=> binding.row.events = <<"is_valid", "save">>

\* A field constructed with RowSerializer and bound under a request context
\* has validated and saved a second row through a second serializer.
C26_Witness ==
    /\ binding.called
    /\ binding.last.called
    /\ binding.last.given.t = "class"
    /\ binding.row_validator.t = "closure"
    /\ binding.row.called
    /\ binding.row.serializer.instance = 2
    /\ binding.row.serializer.context =
           {"request", "row", "index", "table_object"}
    /\ binding.row.events = <<"is_valid", "save">>

\* C27: bind of a field whose row_validator is a callable, a function the
\* caller passed or the method or validator an earlier bind resolved,
\* succeeds and keeps that callable.
C27_CallableAccepted ==
    (/\ binding.called
     /\ binding.last.called
     /\ binding.last.given.t \in {"function", "method", "closure"})
    => /\ binding.last.out.kind = "returned"
       /\ binding.row_validator = binding.last.given

(***************************************************************************)
(* Claims about the money field (checked under SpecMoney)                  *)
(***************************************************************************)

\* C30: after Money(a, c) is assigned to the money field, the instance's
\* amount attribute equals a and its currency attribute is c, and reading
\* the field returns a Money of amount a and currency c, whatever the
\* defaults of the two underlying fields.
C30_SetThenGet ==
    (money.called /\ money.assigned.kind = "Money")
    => /\ ~money.amount.isNone
       /\ money.amount.v = money.assigned.amount.v
       /\ money.currency = money.assigned.currency
       /\ money.read.called
          => /\ money.read.out.kind = "Money"
             /\ money.read.out.amount.v = money.assigned.amount.v
             /\ money.read.out.currency = money.assigned.currency

=============================================================================
